---- MODULE Spec2Model ----
(***************************************************************************)
(* Stereo visual odometry of omerhalely/GoPro: the Kalman filter, the      *)
(* trajectory integrator, the stereo frame pair and the visual_odometry    *)
(* loop.                                                                   *)
(*                                                                         *)
(* numpy's floats are modelled as decimal fixed-point numbers with four    *)
(* fractional digits, every product, quotient and square root rounded to   *)
(* the nearest representable value, and NaN (what numpy yields for the     *)
(* median of an empty array).  A number is a record [nan, v]: v counts     *)
(* units of 1/Unit.  TLC's integers have 32 bits, so magnitudes stay       *)
(* below 2^31 / Unit and divisors below 2000.                              *)
(***************************************************************************)
EXTENDS Integers, Sequences, FiniteSets, TLC

VARIABLES
    trajectory,     \* the primary Trajectory object (scale from optical flow)
    trajectory2,    \* the reference Trajectory object (scale from ground truth)
    calls,          \* the arguments of trajectory's update calls so far, in order
    heap,           \* the live Frame objects, by object identity
    prev_frames,    \* the DualFrames object of the previous stereo pair
    current_frames, \* the DualFrames object of the current stereo pair
    K_cam1,         \* the array calibration_data.K_cam1; every DualFrames.K is it
    down_sample,    \* the down-sample factor of the run
    pc,             \* where the run stands
    frame_i,        \* the loop index i of visual_odometry
    current_time,   \* the timestamp of the frame handled last
    prev_gt_pose,   \* the ground-truth position of the frame handled last
    lcl,            \* the locals of the running step
    reference,      \* ENU of build_reference_trajectory: reference[i + 1] is ENU[:, i]
    KF,             \* a KalmanFilter object on its own
    kf_log,         \* the calls made on KF so far, with their arguments
    config,         \* app.config["DEVELOPMENT_MODE"], and whether video_capture was imported
    state_lock,     \* AppState._state_lock: the thread holding it, or None
    is_running,     \* AppState._is_running
    stop_evt,       \* AppState._stop_evt: whether the event is set
    capture_threads,\* the capture threads started so far: where each stands
    requests,       \* the HTTP requests received so far: where each stands
    fs,             \* the file system: the entries that exist, by absolute path
    last,           \* the request handled last, and its response
    preview_ctrls,  \* AppState._preview_ctrls: the value stored under each control
    proc_stat,      \* the eight counters of the first line of /proc/stat
    state_prev,     \* AppState._prev_total and _prev_idle
    app_prev,       \* the globals _prev_total and _prev_idle of app.py
    cpu_log,        \* the calls of _read_cpu_util_percent so far, with what each saw and returned
    picam2,         \* the preview-camera handle _picam2: the instance it refers to, or None
    picam_lock,     \* _picam_lock: the /preview.mjpg request holding it, or None
    cameras,        \* the preview Picamera2 instances that are open
    previews        \* the /preview.mjpg requests received so far: where each stands

trajVars == <<trajectory, calls>>

frameVars == <<heap, prev_frames, current_frames, K_cam1, down_sample>>

loopVars == <<trajectory2, frame_i, current_time, prev_gt_pose>>

\* The state of the visual odometry run.
odoVars == <<trajectory, trajectory2, calls, heap, prev_frames, current_frames,
             K_cam1, down_sample, pc, frame_i, current_time, prev_gt_pose, lcl>>

datasetVars == <<reference>>

filterVars == <<KF, kf_log>>

captureVars == <<config, state_lock, is_running, stop_evt, capture_threads, requests>>

filesVars == <<fs, last>>

\* What the visual odometry run never touches.
metricsVars == <<proc_stat, state_prev, app_prev, cpu_log>>

cameraVars == <<picam2, picam_lock, cameras, previews>>

deviceVars == <<preview_ctrls, metricsVars, cameraVars>>

sideVars == <<datasetVars, filterVars, captureVars, filesVars, deviceVars>>

vars == <<odoVars, sideVars>>

---------------------------------------------------------------------------
(* Arithmetic standing for numpy floats.                                   *)

Unit == 100 * 100

Abs(a) == IF a < 0 THEN -a ELSE a

Sign(a) == IF a < 0 THEN -1 ELSE 1

\* F applied to the value of v: a local name bound to a value computed once.
Let(v, F(_)) == CHOOSE r \in {F(e) : e \in {v}} : TRUE

NaN == [nan |-> TRUE, v |-> 0]

IsNaN(a) == a.nan

Fix(k) == [nan |-> FALSE, v |-> k]

I2R(k) == Fix(k * Unit)

Zero == I2R(0)

One == I2R(1)

\* n / d for integers n and 0 < d, rounded to the nearest.
RoundDiv(n, d) ==
    LET q == Abs(n) \div d
        r == Abs(n) % d
    IN  Sign(n) * (IF 2 * r >= d THEN q + 1 ELSE q)

\* The number n / d, e.g. Dec(1, 10) for the literal 0.1.
Dec(n, d) == Fix(RoundDiv(n * Unit, d))

RAdd(a, b) == IF IsNaN(a) \/ IsNaN(b) THEN NaN ELSE Fix(a.v + b.v)

RNeg(a) == IF IsNaN(a) THEN NaN ELSE Fix(-a.v)

RSub(a, b) == IF IsNaN(a) \/ IsNaN(b) THEN NaN ELSE Fix(a.v - b.v)

\* a * b: the integer and fractional parts are multiplied separately, which
\* keeps every intermediate within 32 bits.  Products with 0 and with 1 are
\* exact and need no arithmetic.
RMul(a, b) ==
    IF IsNaN(a) \/ IsNaN(b) THEN NaN
    ELSE IF a.v = 0 \/ b.v = 0 THEN Zero
    ELSE IF a.v = Unit THEN b
    ELSE IF b.v = Unit THEN a
    ELSE Let(Abs(a.v), LAMBDA x : Let(Abs(b.v), LAMBDA y :
             Fix(Sign(a.v) * Sign(b.v)
                 * ((x \div Unit) * (y \div Unit) * Unit
                    + (x \div Unit) * (y % Unit)
                    + (x % Unit) * (y \div Unit)
                    + RoundDiv((x % Unit) * (y % Unit), Unit)))))

\* a / b by long division, two digits at a time.  The divisors of the
\* program (dt, a homogeneous coordinate, a pivot, a count) are kept non-zero
\* by the inputs; x / 0 is left as NaN.
RDiv(a, b) ==
    IF IsNaN(a) \/ IsNaN(b) \/ b.v = 0 THEN NaN
    ELSE LET d == Abs(b.v)
             q == Abs(a.v) \div d
             r == Abs(a.v) % d
             q1 == (r * 100) \div d
             r1 == (r * 100) % d
             q2 == (r1 * 100) \div d
             r2 == (r1 * 100) % d
         IN  Fix(Sign(a.v) * Sign(b.v)
                 * (q * Unit + q1 * 100 + q2 + (IF 2 * r2 >= d THEN 1 ELSE 0)))

\* a < b as numpy compares: every comparison with NaN is False.
RLt(a, b) == ~IsNaN(a) /\ ~IsNaN(b) /\ a.v < b.v

RECURSIVE ISqrt(_, _)
\* The integer square root of n by Newton's iteration from the guess g.
ISqrt(n, g) ==
    LET h == (g + n \div g) \div 2
    IN  IF h >= g THEN g ELSE ISqrt(n, h)

RECURSIVE Newton(_, _)
\* Newton's iteration (r + a / r) / 2 for sqrt(a), from a guess r above it.
Newton(a, r) ==
    LET h == RDiv(RAdd(r, RDiv(a, r)), I2R(2))
    IN  IF h.v >= r.v THEN r ELSE Newton(a, h)

RSqrt(a) ==
    IF IsNaN(a) \/ a.v < 0 THEN NaN
    ELSE IF a.v = 0 THEN Zero
    ELSE Newton(a, Fix((ISqrt(a.v, a.v) + 1) * 100))

RECURSIVE RSum(_, _)
RSum(f, k) == IF k = 0 THEN Zero ELSE RAdd(RSum(f, k - 1), f[k])

\* Matrices are sequences of rows.  Tab turns a function on 1..k into the
\* tuple of its values, so that every entry is computed once.
Tab(f, k) ==
    CASE k = 0 -> <<>>
      [] k = 1 -> <<f[1]>>
      [] k = 2 -> <<f[1], f[2]>>
      [] k = 3 -> <<f[1], f[2], f[3]>>
      [] k = 4 -> <<f[1], f[2], f[3], f[4]>>
      [] k = 5 -> <<f[1], f[2], f[3], f[4], f[5]>>
      [] k = 6 -> <<f[1], f[2], f[3], f[4], f[5], f[6]>>

Rows(M) == Len(M)

Cols(M) == Len(M[1])

Mat(f, r, c) == Tab([i \in 1..r |-> Tab(f[i], c)], r)

MatMul(M, N) ==
    Mat([i \in 1..Rows(M) |->
            [j \in 1..Cols(N) |->
                RSum([k \in 1..Cols(M) |-> RMul(M[i][k], N[k][j])], Cols(M))]],
        Rows(M), Cols(N))

MatAdd(M, N) ==
    Mat([i \in 1..Rows(M) |-> [j \in 1..Cols(M) |-> RAdd(M[i][j], N[i][j])]],
        Rows(M), Cols(M))

MatSub(M, N) ==
    Mat([i \in 1..Rows(M) |-> [j \in 1..Cols(M) |-> RSub(M[i][j], N[i][j])]],
        Rows(M), Cols(M))

MatScale(c, M) ==
    Mat([i \in 1..Rows(M) |-> [j \in 1..Cols(M) |-> RMul(c, M[i][j])]],
        Rows(M), Cols(M))

Transpose(M) ==
    Mat([j \in 1..Cols(M) |-> [i \in 1..Rows(M) |-> M[i][j]]], Cols(M), Rows(M))

Eye(k) == Mat([i \in 1..k |-> [j \in 1..k |-> IF i = j THEN One ELSE Zero]], k, k)

Zeros(r, c) == Mat([i \in 1..r |-> [j \in 1..c |-> Zero]], r, c)

\* np.linalg.inv of a 3 x 3 matrix: Gauss-Jordan elimination on [M | I],
\* column c onward.  A singular M has no pivot (numpy raises LinAlgError).
\* One step of Gauss-Jordan elimination on column c of aug, whose row c
\* holds a non-zero pivot: the row is normalised and the column cleared.
Eliminate(aug, c) ==
    Let(Tab([j \in 1..6 |-> RDiv(aug[c][j], aug[c][c])], 6), LAMBDA prow :
        Mat([r \in 1..3 |-> [j \in 1..6 |->
                IF r = c THEN prow[j]
                ELSE RSub(aug[r][j], RMul(aug[r][c], prow[j]))]], 3, 6))

\* aug with row c and the first row at or below it that has a non-zero
\* entry in column c exchanged.
Pivot(aug, c) ==
    Let(CHOOSE r \in c..3 :
            /\ aug[r][c].v # 0
            /\ \A q \in c..(r - 1) : aug[q][c].v = 0,
        LAMBDA p : [aug EXCEPT ![c] = aug[p], ![p] = aug[c]])

RECURSIVE GaussJordan(_, _)
GaussJordan(aug, c) ==
    IF c > 3 THEN aug
    ELSE Let(Eliminate(Pivot(aug, c), c), LAMBDA elim : GaussJordan(elim, c + 1))

Inv3(M) ==
    Let(GaussJordan(Mat([i \in 1..3 |-> [j \in 1..6 |->
                            IF j <= 3 THEN M[i][j]
                            ELSE IF j = i + 3 THEN One ELSE Zero]], 3, 6), 1),
        LAMBDA sol : Mat([i \in 1..3 |-> [j \in 1..3 |-> sol[i][j + 3]]], 3, 3))

---------------------------------------------------------------------------
(* KalmanFilter (src/Classes/KalmanFilter.py).  A filter is a record       *)
(* [x, P, dt, A, calls]; calls is the sequence of its methods executed     *)
(* since the last call of process, kept for the claims about which of      *)
(* predict and update a step runs.                                         *)

KF_Q == MatScale(Dec(1, 100), Eye(6))

KF_R == MatScale(Dec(1, 1000), Eye(3))

KF_H == Mat([i \in 1..3 |-> [j \in 1..6 |-> IF i = j THEN One ELSE Zero]], 3, 6)

KalmanFilter_init ==
    [x |-> Zeros(6, 1),
     P |-> Eye(6),
     dt |-> Dec(1, 10),
     A |-> Mat([i \in 1..6 |-> [j \in 1..6 |->
                   IF i = j THEN One ELSE IF j = i + 3 THEN Dec(1, 10) ELSE Zero]], 6, 6),
     calls |-> <<>>]

update_model(kf, dt) ==
    [kf EXCEPT !.dt = dt,
               !.A[1][4] = dt,
               !.A[2][5] = dt,
               !.A[3][6] = dt]

predict_without_covariance(kf, dt) ==
    Let(update_model(kf, dt), LAMBDA m :
        [m EXCEPT !.x = MatMul(m.A, m.x),
                  !.calls = Append(m.calls, "predict")])

predict(kf, dt) ==
    Let(update_model(kf, dt), LAMBDA m :
        [m EXCEPT !.x = MatMul(m.A, m.x),
                  !.P = MatAdd(MatMul(MatMul(m.A, m.P), Transpose(m.A)), KF_Q),
                  !.calls = Append(m.calls, "predict")])

\* KalmanFilter.update.
KF_update(kf, z) ==
    Let(MatSub(z, MatMul(KF_H, kf.x)), LAMBDA y :
    Let(MatAdd(MatMul(MatMul(KF_H, kf.P), Transpose(KF_H)), KF_R), LAMBDA s :
    Let(MatMul(MatMul(kf.P, Transpose(KF_H)), Inv3(s)), LAMBDA k :
        [kf EXCEPT !.x = MatAdd(kf.x, MatMul(k, y)),
                   !.P = MatMul(MatSub(Eye(6), MatMul(k, KF_H)), kf.P),
                   !.calls = Append(kf.calls, "update")])))

process_updating_always(kf, dt, z, valid) ==
    KF_update(predict([kf EXCEPT !.calls = <<>>], dt), z)

\* process returns x[:3, :]; here it yields the filter, whose position is Pos.
process(kf, dt, z, valid) ==
    Let(predict([kf EXCEPT !.calls = <<>>], dt), LAMBDA p :
        IF valid THEN KF_update(p, z) ELSE p)

Pos(kf) == Tab([i \in 1..3 |-> kf.x[i]], 3)

---------------------------------------------------------------------------
(* Trajectory (src/OfflineFiltering/Classes/Trajectory.py).                *)

filter_window_size == 5

Trajectory_init ==
    [R |-> Eye(3),
     t |-> Zeros(3, 1),
     trajectory |-> <<<<Zero, Zero, Zero>>>>,
     velocity |-> <<>>,
     KF |-> KalmanFilter_init]

Max(a, b) == IF a > b THEN a ELSE b

\* np.mean(rows[start:], axis=0) of a sequence of 3-vectors (start is 0-based).
MeanFrom(rows, start) ==
    LET cnt == Len(rows) - start
    IN  Tab([j \in 1..3 |->
                RDiv(RSum([k \in 1..cnt |-> rows[start + k][j]], cnt), I2R(cnt))], 3)

record_step_appending_measurement(tr, R1, t1, kf, dt) ==
    Let(Append(tr.trajectory, Transpose(t1)[1]), LAMBDA traj :
    Let(Append(tr.velocity,
               Tab([j \in 1..3 |->
                       RDiv(RMul(Dec(18, 5),
                                 RSub(traj[Len(traj)][j], traj[Len(traj) - 1][j])),
                            dt)], 3)), LAMBDA vel :
        [R |-> R1,
         t |-> t1,
         trajectory |-> traj,
         velocity |-> [vel EXCEPT ![Len(vel)] =
                          MeanFrom(vel, Max(0, Len(vel) - filter_window_size))],
         KF |-> kf]))

record_step_without_unit_conversion(tr, R1, t1, kf, dt) ==
    Let(Append(tr.trajectory, Transpose(Pos(kf))[1]), LAMBDA traj :
    Let(Append(tr.velocity,
               Tab([j \in 1..3 |->
                       RDiv(RSub(traj[Len(traj)][j], traj[Len(traj) - 1][j]),
                            dt)], 3)), LAMBDA vel :
        [R |-> R1,
         t |-> t1,
         trajectory |-> traj,
         velocity |-> [vel EXCEPT ![Len(vel)] =
                          MeanFrom(vel, Max(0, Len(vel) - filter_window_size))],
         KF |-> kf]))

record_step_without_overwrite(tr, R1, t1, kf, dt) ==
    Let(Append(tr.trajectory, Transpose(Pos(kf))[1]), LAMBDA traj :
    Let(Append(tr.velocity,
               Tab([j \in 1..3 |->
                       RDiv(RMul(Dec(18, 5),
                                 RSub(traj[Len(traj)][j], traj[Len(traj) - 1][j])),
                            dt)], 3)), LAMBDA vel :
        [R |-> R1,
         t |-> t1,
         trajectory |-> traj,
         velocity |-> vel,
         KF |-> kf]))

\* Lines 23-31 of Trajectory.update: the filtered position appended, the
\* velocity over the step appended and then smoothed over the window.
record_step(tr, R1, t1, kf, dt) ==
    Let(Append(tr.trajectory, Transpose(Pos(kf))[1]), LAMBDA traj :
    Let(Append(tr.velocity,
               Tab([j \in 1..3 |->
                       RDiv(RMul(Dec(18, 5),
                                 RSub(traj[Len(traj)][j], traj[Len(traj) - 1][j])),
                            dt)], 3)), LAMBDA vel :
        [R |-> R1,
         t |-> t1,
         trajectory |-> traj,
         velocity |-> [vel EXCEPT ![Len(vel)] =
                          MeanFrom(vel, Max(0, Len(vel) - filter_window_size))],
         KF |-> kf]))

Trajectory_update_rotating_first(tr, R, t, dt, s, valid) ==
    Let(MatMul(tr.R, R), LAMBDA R1 :
    Let(MatAdd(tr.t, MatMul(MatScale(s, R1), t)), LAMBDA t1 :
        record_step(tr, R1, t1, process(tr.KF, dt, t1, valid), dt)))

Trajectory_update(tr, R, t, dt, s, valid) ==
    Let(MatAdd(tr.t, MatMul(MatScale(s, tr.R), t)), LAMBDA t1 :
    Let(MatMul(tr.R, R), LAMBDA R1 :
        record_step(tr, R1, t1, process(tr.KF, dt, t1, valid), dt)))

---------------------------------------------------------------------------
(* Optional values (Python's None) and the recorded drive.                 *)

None == <<>>

Some(x) == <<x>>

Get(o) == o[1]

\* dataset.get_cam0(index) / get_cam1(index): the image of one camera.
Image(index, cam) == [index |-> index, cam |-> cam, scale |-> 1]

\* cv2.resize(frame, (w // s, h // s)).
resize(img, s) == [img EXCEPT !.scale = img.scale * s]

\* The rectified projection matrices of the calibration: focal length 10,
\* principal point (0, 0), the second camera shifted by Tx = -159.99.
P_rect_00 ==
    <<<<I2R(10), Zero, Zero, Zero>>, <<Zero, I2R(10), Zero, Zero>>,
      <<Zero, Zero, One, Zero>>>>

P_rect_10 ==
    <<<<I2R(10), Zero, Zero, Dec(-15999, 100)>>, <<Zero, I2R(10), Zero, Zero>>,
      <<Zero, Zero, One, Zero>>>>

\* calibration_data.K_cam1 as the dataset loads it.
K_calib == <<<<I2R(10), Zero, Zero>>, <<Zero, I2R(10), Zero>>, <<Zero, Zero, One>>>>

\* The keypoints SIFT finds in a full-size left image (all on the image row
\* 0) and the disparity of each to its counterpart in the right image.  They
\* triangulate to depths 5, 20, 50, 79.995 and 90.
SceneColumn == <<Dec(1, 2), Dec(1, 5), One, Zero, I2R(-1)>>

SceneDisparity ==
    <<Dec(31998, 1000), Dec(79995, 10000), Dec(31998, 10000), I2R(2),
      Dec(17777, 10000)>>

NFeat == Len(SceneColumn)

\* sift.detectAndCompute(img, None): the keypoints in the coordinates of the
\* (resized) image, and one descriptor row per keypoint.  k names the
\* keypoint a descriptor row was computed at.
detectAndCompute(img) ==
    LET col(k) == IF img.cam = 0 THEN SceneColumn[k]
                  ELSE RSub(SceneColumn[k], SceneDisparity[k])
    IN  [features |->
            Tab([k \in 1..NFeat |->
                    [pt |-> <<RDiv(col(k), I2R(img.scale)), Zero>>, k |-> k]], NFeat),
         descriptor |->
            Tab([k \in 1..NFeat |->
                    [index |-> img.index, cam |-> img.cam, k |-> k]], NFeat)]

---------------------------------------------------------------------------
(* Frame.                                                                  *)

\* Frame.__init__: frame is None or Some(image).  Without an image the
\* attributes features and descriptor are never created.
Frame_init(frame, s) ==
    IF frame = None
    THEN [frame |-> None, down_sample |-> s, shape |-> None,
          valid_matches |-> None, valid_features |-> None,
          valid_descriptors |-> None, features |-> None, descriptor |-> None]
    ELSE Let(IF s # 1 THEN resize(Get(frame), s) ELSE Get(frame), LAMBDA img :
         Let(detectAndCompute(img), LAMBDA fd :
             [frame |-> Some(img), down_sample |-> s,
              shape |-> Some(Get(frame).scale),
              valid_matches |-> None, valid_features |-> None,
              valid_descriptors |-> None,
              features |-> Some(fd.features), descriptor |-> Some(fd.descriptor)]))

update_valid(fr, valid_matches, valid_features, valid_descriptors) ==
    [fr EXCEPT !.valid_matches = Some(valid_matches),
               !.valid_features = Some(valid_features),
               !.valid_descriptors = Some(valid_descriptors)]

---------------------------------------------------------------------------
(* The heap of Frame objects: a function from object identities to Frames. *)

Fresh(h) == IF DOMAIN h = {} THEN 1
            ELSE (CHOOSE a \in DOMAIN h : \A b \in DOMAIN h : b <= a) + 1

\* Two new objects, the first at Fresh(h).
Alloc2(h, f1, f2) ==
    Let(Fresh(h), LAMBDA a :
        [id \in DOMAIN h \cup {a, a + 1} |->
            IF id = a THEN f1 ELSE IF id = a + 1 THEN f2 ELSE h[id]])

\* The objects no reference reaches any more are gone.
Collect(h, live) == [id \in DOMAIN h \cap live |-> h[id]]

FramesOf(df) == IF df = None THEN {} ELSE {Get(df).left_frame, Get(df).right_frame}

---------------------------------------------------------------------------
(* DualFrames.                                                             *)

\* K *= 1 / down_sample; K[2][2] = 1, on the array K refers to.
ScaleK(K, s) == [MatScale(RDiv(One, I2R(s)), K) EXCEPT ![3][3] = One]

\* DualFrames.__init__ on heap h with K referring to the array of value K:
\* the new object, the heap and the array afterwards.
DualFrames_init(h, K, left_frame, right_frame, s) ==
    [self |-> [left_frame |-> Fresh(h), right_frame |-> Fresh(h) + 1,
               K |-> "K_cam1", P_00 |-> P_rect_00, P_10 |-> P_rect_10,
               down_sample |-> s, world_coordinates |-> None],
     heap |-> Alloc2(h, Frame_init(left_frame, s), Frame_init(right_frame, s)),
     K |-> ScaleK(K, s)]

\* DualFrames.copy: the two references of other, not copies of its Frames.
DualFrames_copy(self, other) ==
    [self EXCEPT !.left_frame = other.left_frame, !.right_frame = other.right_frame]

update_frames_in_place(self, h, left_frame, right_frame) ==
    [self |-> self,
     heap |-> [h EXCEPT ![self.left_frame] = Frame_init(left_frame, self.down_sample),
                        ![self.right_frame] = Frame_init(right_frame, self.down_sample)]]

\* DualFrames.update_frames: two new Frame objects.
update_frames(self, h, left_frame, right_frame) ==
    [self |-> [self EXCEPT !.left_frame = Fresh(h), !.right_frame = Fresh(h) + 1],
     heap |-> Alloc2(h, Frame_init(left_frame, self.down_sample),
                        Frame_init(right_frame, self.down_sample))]

\* The default ratio t = 0.75 of solve_stereo and of R_t_estimation.
ratio_t == Dec(3, 4)

\* for m, n in matches: if m.distance < t * n.distance.  Keypoints and
\* descriptor rows are numbered from 1 here.
Accepted(matches) ==
    SelectSeq(matches, LAMBDA p : RLt(p.m.distance, RMul(ratio_t, p.n.distance)))

RECURSIVE Compress(_, _)
\* xs[mask] for a boolean mask of the length of xs.
Compress(xs, mask) ==
    IF xs = <<>> THEN <<>>
    ELSE IF Head(mask) THEN <<Head(xs)>> \o Compress(Tail(xs), Tail(mask))
    ELSE Compress(Tail(xs), Tail(mask))

\* M[:, mask].
CompressColumns(M, mask) == Tab([r \in 1..Rows(M) |-> Compress(M[r], mask)], Rows(M))

\* cv2.triangulatePoints(P_00, P_10, l, r) for a rectified pair, l and r of
\* shape 2 x N with every pair on one image row: a 4 x N array of
\* homogeneous points, here in the scaling X = (xl - cx) * (-Tx),
\* Y = (yl - cy) * (-Tx), Z = f * (-Tx), W = f * (xl - xr).
triangulatePoints(P_00, P_10, l, r) ==
    <<Tab([j \in 1..Cols(l) |->
              RMul(RSub(l[1][j], P_00[1][3]), RNeg(P_10[1][4]))], Cols(l)),
      Tab([j \in 1..Cols(l) |->
              RMul(RSub(l[2][j], P_00[2][3]), RNeg(P_10[1][4]))], Cols(l)),
      Tab([j \in 1..Cols(l) |-> RMul(P_00[1][1], RNeg(P_10[1][4]))], Cols(l)),
      Tab([j \in 1..Cols(l) |->
              RMul(P_00[1][1], RSub(l[1][j], r[1][j]))], Cols(l))>>

\* (world / world[-1, :]).T: N rows (x, y, z, 1).
Normalised(world) ==
    Transpose(Mat([r \in 1..4 |-> [j \in 1..Cols(world) |->
                      RDiv(world[r][j], world[4][j])]], 4, Cols(world)))

\* np.linalg.norm(rows, axis=-1): over all the components of every row.
RowNorms(rows) ==
    Tab([j \in 1..Len(rows) |->
            RSqrt(RSum([c \in 1..Len(rows[j]) |-> RMul(rows[j][c], rows[j][c])],
                       Len(rows[j])))], Len(rows))

\* mask = norm < 80.
RangeMask(rows) ==
    Let(RowNorms(rows), LAMBDA norm :
        Tab([j \in 1..Len(rows) |-> RLt(norm[j], I2R(80))], Len(rows)))

\* Lines 43-71 of solve_stereo: the six lists of the accepted matches and
\* the normalised triangulated points, before the range mask.
stereo_candidates(self, left, right, matches) ==
    Let(Accepted(matches), LAMBDA acc :
    Let(Tab([a \in 1..Len(acc) |-> Get(left.features)[acc[a].m.queryIdx]], Len(acc)),
        LAMBDA lf :
    Let(Tab([a \in 1..Len(acc) |-> Get(right.features)[acc[a].m.trainIdx]], Len(acc)),
        LAMBDA rf :
    Let(Transpose(Tab([a \in 1..Len(acc) |-> lf[a].pt], Len(acc))), LAMBDA lm :
    Let(Transpose(Tab([a \in 1..Len(acc) |-> rf[a].pt], Len(acc))), LAMBDA rm :
        [left_valid_matches |-> lm,
         right_valid_matches |-> rm,
         left_valid_features |-> lf,
         right_valid_features |-> rf,
         left_valid_descriptors |->
            Tab([a \in 1..Len(acc) |-> Get(left.descriptor)[acc[a].m.queryIdx]],
                Len(acc)),
         right_valid_descriptors |->
            Tab([a \in 1..Len(acc) |-> Get(right.descriptor)[acc[a].m.trainIdx]],
                Len(acc)),
         world_coordinates |->
            Normalised(triangulatePoints(self.P_00, self.P_10, lm, rm))])))))

solve_stereo_masking_left_only(self, left, right, matches) ==
    IF Accepted(matches) = <<>>
    THEN [raised |-> TRUE, world_coordinates |-> <<>>, left |-> left, right |-> right]
    ELSE Let(stereo_candidates(self, left, right, matches), LAMBDA c :
         Let(RangeMask(c.world_coordinates), LAMBDA mask :
             [raised |-> FALSE,
              world_coordinates |-> Compress(c.world_coordinates, mask),
              left |-> update_valid(left, CompressColumns(c.left_valid_matches, mask),
                                    Compress(c.left_valid_features, mask),
                                    Compress(c.left_valid_descriptors, mask)),
              right |-> update_valid(right, c.right_valid_matches,
                                     c.right_valid_features,
                                     c.right_valid_descriptors)]))

\* DualFrames.solve_stereo on the Frames left and right of self, with the
\* answer of bf.knnMatch: the new world_coordinates and the two Frames
\* afterwards.  cv2.triangulatePoints rejects an empty point set, so with no
\* accepted match the call raises and assigns nothing.
solve_stereo(self, left, right, matches) ==
    IF Accepted(matches) = <<>>
    THEN [raised |-> TRUE, world_coordinates |-> <<>>, left |-> left, right |-> right]
    ELSE Let(stereo_candidates(self, left, right, matches), LAMBDA c :
         Let(RangeMask(c.world_coordinates), LAMBDA mask :
             [raised |-> FALSE,
              world_coordinates |-> Compress(c.world_coordinates, mask),
              left |-> update_valid(left, CompressColumns(c.left_valid_matches, mask),
                                    Compress(c.left_valid_features, mask),
                                    Compress(c.left_valid_descriptors, mask)),
              right |-> update_valid(right, CompressColumns(c.right_valid_matches, mask),
                                     Compress(c.right_valid_features, mask),
                                     Compress(c.right_valid_descriptors, mask))]))

---------------------------------------------------------------------------
(* The parts of the state as they are before anything runs.                *)

\* The index of the last frame the loop handles: len(dataset) // 5 - 1.
MaxLoop == 2

\* ENU[:, i] of build_reference_trajectory: the ground-truth positions.
ENU(k) == <<I2R(3 * k), Zero, I2R(4 * k)>>

\* The ground-truth positions of another drive over the same images.
ENU_east(k) == <<I2R(k), Zero, Zero>>

\* The number of frames of a short drive.
ShortDrive == 2

\* The reference trajectories a short drive may come with.
References ==
    {Tab([k \in 1..ShortDrive |-> ENU(k - 1)], ShortDrive),
     Tab([k \in 1..ShortDrive |-> ENU_east(k - 1)], ShortDrive)}

\* The reference trajectory of the recorded drive: one position for each
\* frame the loop handles, and one for frame 0.
DatasetLoaded == reference = Tab([k \in 1..(MaxLoop + 1) |-> ENU(k - 1)], MaxLoop + 1)

\* KF = KalmanFilter(), no call made on it.
FilterIdle ==
    /\ KF = KalmanFilter_init
    /\ kf_log = <<>>

\* The capture service on the device: DEVELOPMENT_MODE off, VideoCapture imported.
OnDevice == [DEVELOPMENT_MODE |-> FALSE, video_capture |-> TRUE]

\* AppState.__init__: the lock free, nothing running, the event not set.
AppState_init ==
    /\ state_lock = None
    /\ is_running = FALSE
    /\ stop_evt = FALSE
    /\ capture_threads = <<>>
    /\ requests = <<>>

CaptureIdle ==
    /\ config = OnDevice
    /\ AppState_init

FilesIdle ==
    /\ fs = {}
    /\ last = <<>>

\* The controls of the preview that a client can set.
Controls == {"AeEnable", "ExposureTime", "AnalogueGain", "DigitalGain",
             "Brightness", "Contrast", "Saturation", "Sharpness"}

\* config["DEFAULT_PREVIEW_CTRLS"], as far as Controls go: AeEnable is True
\* (config.py:55), the others are read from the deployment's
\* configurations.json, here with the exposure and gain of a bright scene;
\* DigitalGain has no default.
DEFAULT_PREVIEW_CTRLS ==
    [k \in Controls |->
        CASE k = "AeEnable" -> Some(TRUE)
          [] k = "ExposureTime" -> Some(8000)
          [] k = "AnalogueGain" -> Some(I2R(8))
          [] k = "DigitalGain" -> None
          [] k = "Brightness" -> Some(Zero)
          [] k = "Contrast" -> Some(I2R(1))
          [] k = "Saturation" -> Some(I2R(1))
          [] k = "Sharpness" -> Some(I2R(1))]

\* AppState.__init__, lines 19-21, and app.py, lines 112-113: no totals kept
\* yet; the counters of a machine just booted.
MetricsIdle ==
    /\ proc_stat = <<0, 0, 0, 0, 0, 0, 0, 0>>
    /\ state_prev = [total |-> None, idle |-> None]
    /\ app_prev = [total |-> None, idle |-> None]
    /\ cpu_log = <<>>

\* AppState.__init__, lines 34-35, and app.py, lines 116-117: no preview
\* camera yet, the lock free.
CameraIdle ==
    /\ picam2 = None
    /\ picam_lock = None
    /\ cameras = {}
    /\ previews = <<>>

\* AppState.__init__, line 39.
DeviceIdle ==
    /\ preview_ctrls = DEFAULT_PREVIEW_CTRLS
    /\ MetricsIdle
    /\ CameraIdle

SideInit == DatasetLoaded /\ FilterIdle /\ CaptureIdle /\ FilesIdle /\ DeviceIdle

\* No visual odometry run in progress.
OdometryIdle ==
    /\ trajectory = Trajectory_init
    /\ trajectory2 = Trajectory_init
    /\ calls = <<>>
    /\ heap = <<>>
    /\ prev_frames = None
    /\ current_frames = None
    /\ K_cam1 = K_calib
    /\ down_sample = 1
    /\ pc = "idle"
    /\ frame_i = 0
    /\ current_time = Zero
    /\ prev_gt_pose = <<Zero, Zero, Zero>>
    /\ lcl = <<>>

---------------------------------------------------------------------------
(* A Trajectory driven directly by calls of update.                        *)

MaxSteps == 2

Rz90 == <<<<Zero, I2R(-1), Zero>>, <<One, Zero, Zero>>, <<Zero, Zero, One>>>>

Rx90 == <<<<One, Zero, Zero>>, <<Zero, Zero, I2R(-1)>>, <<Zero, One, Zero>>>>

Rotations == {Rz90, Rx90}

ex == <<<<One>>, <<Zero>>, <<Zero>>>>

ez == <<<<Zero>>, <<Zero>>, <<One>>>>

\* A unit translation direction with the scale applied to it.
Translations == {[t |-> ex, s |-> One], [t |-> ez, s |-> Dec(1, 2)]}

Dts == {Dec(1, 10), Dec(1, 5)}

Call(R, t, dt, s, valid) == [R |-> R, t |-> t, dt |-> dt, s |-> s, valid |-> valid]

TrajInit ==
    /\ trajectory = Trajectory_init
    /\ calls = <<>>
    /\ trajectory2 = Trajectory_init
    /\ heap = <<>>
    /\ prev_frames = None
    /\ current_frames = None
    /\ K_cam1 = K_calib
    /\ down_sample = 1
    /\ pc = "trajectory"
    /\ frame_i = 0
    /\ current_time = Zero
    /\ prev_gt_pose = <<Zero, Zero, Zero>>
    /\ lcl = <<>>
    /\ SideInit

TrajStep ==
    /\ Len(calls) < MaxSteps
    /\ \E R \in Rotations, ts \in Translations, dt \in Dts, valid \in BOOLEAN :
          /\ trajectory' = Trajectory_update(trajectory, R, ts.t, dt, ts.s, valid)
          /\ calls' = Append(calls, Call(R, ts.t, dt, ts.s, valid))
    /\ UNCHANGED sideVars
    /\ UNCHANGED <<frameVars, loopVars, pc, lcl>>

TrajNext == TrajStep

SpecTraj == TrajInit /\ [][TrajNext]_vars

---------------------------------------------------------------------------
(* A KalmanFilter driven directly by calls of predict and update.          *)

\* The number of calls made on the filter.
MaxCalls == 5

\* The dt a predict call is made with.
PredictDts == {One, Dec(1, 10)}

\* The measurement an update call is made with.
Measurements == {ex}

KFInit ==
    /\ OdometryIdle
    /\ SideInit

KFPredict ==
    /\ Len(kf_log) < MaxCalls
    /\ \E dt \in PredictDts :
          /\ KF' = predict(KF, dt)
          /\ kf_log' = Append(kf_log, [op |-> "predict", arg |-> dt])
    /\ UNCHANGED <<odoVars, datasetVars, captureVars, filesVars, deviceVars>>

KFUpdate ==
    /\ Len(kf_log) < MaxCalls
    /\ \E z \in Measurements :
          /\ KF' = KF_update(KF, z)
          /\ kf_log' = Append(kf_log, [op |-> "update", arg |-> z])
    /\ UNCHANGED <<odoVars, datasetVars, captureVars, filesVars, deviceVars>>

KFNext == KFPredict \/ KFUpdate

SpecKF == KFInit /\ [][KFNext]_vars

---------------------------------------------------------------------------
(* A Trajectory driven along a straight line at dt = 0.1.                  *)

\* The number of update calls of the drive.
MaxRun == 6

\* The measured translation lengths along x for which the filtered position
\* advances by exactly 0.5 at every step: the filter lags its measurements,
\* so the first ones overshoot 0.5 and the later ones close in on it.
CruiseScale ==
    <<Dec(5005, 10000), Dec(5231, 10000), Dec(4912, 10000), Dec(4964, 10000),
      Dec(4976, 10000), Dec(4984, 10000), Dec(4989, 10000), Dec(4991, 10000)>>

\* What a step of the drive may be: the measurement taken and valid, or
\* not valid, or taken over a dt of 0.2.
CruiseInputs == {[dt |-> Dec(1, 10), valid |-> TRUE],
                 [dt |-> Dec(1, 10), valid |-> FALSE],
                 [dt |-> Dec(1, 5), valid |-> TRUE]}

CruiseInit ==
    /\ OdometryIdle
    /\ SideInit

CruiseStep ==
    /\ Len(calls) < MaxRun
    /\ \E in \in CruiseInputs :
          \E s \in {CruiseScale[Len(calls) + 1]} :
              /\ trajectory' = Trajectory_update(trajectory, Eye(3), ex, in.dt, s,
                                                 in.valid)
              /\ calls' = Append(calls, Call(Eye(3), ex, in.dt, s, in.valid))
    /\ UNCHANGED <<frameVars, loopVars, pc, lcl>>
    /\ UNCHANGED sideVars

CruiseNext == CruiseStep

SpecCruise == CruiseInit /\ [][CruiseNext]_vars

---------------------------------------------------------------------------
(* A DualFrames object driven directly by calls of solve_stereo and        *)
(* update_frames.                                                          *)

MaxPairs == 1

DownSamples == {1, 2}

\* An answer of bf.knnMatch(query, train, k=2): for every query row q the
\* best match m, to the train row assign[q], and the second best n.  Where
\* pass[q] the distances are 1 and 2, else 3 and 4: the ratio test just fails.
Knn(pass, assign) ==
    Tab([q \in 1..NFeat |->
            [m |-> [queryIdx |-> q, trainIdx |-> assign[q],
                    distance |-> IF pass[q] THEN One ELSE I2R(3)],
             n |-> [queryIdx |-> q, trainIdx |-> (assign[q] % NFeat) + 1,
                    distance |-> IF pass[q] THEN I2R(2) ELSE I2R(4)]]], NFeat)

\* Every keypoint matched to its counterpart, or to the next one over, or
\* the first two to each other's counterpart.
Assignments ==
    {[q \in 1..NFeat |-> q],
     [q \in 1..NFeat |-> (q % NFeat) + 1],
     [q \in 1..NFeat |-> IF q = 1 THEN 2 ELSE IF q = 2 THEN 1 ELSE q]}

StereoKnn == {Knn(pass, assign) : pass \in [1..NFeat -> BOOLEAN], assign \in Assignments}

StereoInit ==
    /\ down_sample \in DownSamples
    /\ \E c \in {DualFrames_init(<<>>, K_calib, Some(Image(0, 0)), Some(Image(0, 1)),
                                  down_sample)} :
          /\ heap = c.heap
          /\ K_cam1 = c.K
          /\ prev_frames = Some(c.self)
    /\ current_frames = None
    /\ pc = "constructed"
    /\ frame_i = 0
    /\ lcl = [matches |-> <<>>]
    /\ current_time = Zero
    /\ prev_gt_pose = <<Zero, Zero, Zero>>
    /\ trajectory = Trajectory_init
    /\ trajectory2 = Trajectory_init
    /\ calls = <<>>
    /\ SideInit

\* self.solve_stereo() on the DualFrames object self (an Option variable's
\* value), answered by knnMatch with matches.
SolveStereo(self, matches) ==
    Let(solve_stereo(self, heap[self.left_frame], heap[self.right_frame], matches),
        LAMBDA r :
            IF r.raised THEN [raised |-> TRUE, self |-> self, heap |-> heap]
            ELSE [raised |-> FALSE,
                  self |-> [self EXCEPT !.world_coordinates = Some(r.world_coordinates)],
                  heap |-> [heap EXCEPT ![self.left_frame] = r.left,
                                        ![self.right_frame] = r.right]])

StereoSolve ==
    /\ pc \in {"constructed", "solved"}
    /\ \E matches \in StereoKnn :
          \E r \in {SolveStereo(Get(prev_frames), matches)} :
              /\ pc' = IF r.raised THEN "raised" ELSE "solved"
              /\ prev_frames' = Some(r.self)
              /\ heap' = r.heap
              /\ lcl' = [matches |-> matches]
    /\ UNCHANGED sideVars
    /\ UNCHANGED <<trajVars, loopVars, current_frames, K_cam1, down_sample>>

StereoUpdateFrames ==
    /\ pc \in {"constructed", "solved"}
    /\ frame_i < MaxPairs
    /\ frame_i' = frame_i + 1
    /\ \E u \in {update_frames(Get(prev_frames), heap,
                                Some(Image(frame_i + 1, 0)), Some(Image(frame_i + 1, 1)))} :
          /\ prev_frames' = Some(u.self)
          /\ heap' = Collect(u.heap, FramesOf(Some(u.self)))
    /\ pc' = "constructed"
    /\ UNCHANGED sideVars
    /\ UNCHANGED <<trajVars, trajectory2, current_time, prev_gt_pose,
                   current_frames, K_cam1, down_sample, lcl>>

StereoNext == StereoSolve \/ StereoUpdateFrames

SpecStereo == StereoInit /\ [][StereoNext]_vars

---------------------------------------------------------------------------
(* The steps of visual_odometry (src/VisualOdometry.py).                   *)

RECURSIVE Insert(_, _)
Insert(x, xs) ==
    IF xs = <<>> THEN <<x>>
    ELSE IF x.v <= Head(xs).v THEN <<x>> \o xs
    ELSE <<Head(xs)>> \o Insert(x, Tail(xs))

RECURSIVE Sorted(_)
\* sorted(xs): ascending.
Sorted(xs) == IF xs = <<>> THEN <<>> ELSE Insert(Head(xs), Sorted(Tail(xs)))

\* np.median(d) of numbers that are not NaN: NaN for an empty d.
median(d) ==
    IF d = <<>> THEN NaN
    ELSE Let(Sorted(d), LAMBDA s :
             IF Len(s) % 2 = 1 THEN s[(Len(s) + 1) \div 2]
             ELSE RDiv(RAdd(s[Len(s) \div 2], s[Len(s) \div 2 + 1]), I2R(2)))

\* cv2.calcOpticalFlowPyrLK(prev image, next image, pts, None): the tracker
\* answers, for the point at every index, a shift along the image row and a
\* status.  pts has N rows (x, y).
calcOpticalFlowPyrLK(pts, answer) ==
    [next_pts |-> Tab([j \in 1..Len(pts) |->
                          <<RAdd(pts[j][1], answer[j].shift), pts[j][2]>>], Len(pts)),
     status |-> Tab([j \in 1..Len(pts) |-> answer[j].status], Len(pts))]

\* np.logical_and(left_status, right_status).flatten() == 1.
both_tracked(left_status, right_status) ==
    Tab([j \in 1..Len(left_status) |-> left_status[j] = 1 /\ right_status[j] = 1],
        Len(left_status))

range_filter_current_only(world_coordinates, prev_world_coordinates) ==
    Let(RangeMask(world_coordinates), LAMBDA mask :
        [world_coordinates |-> Compress(world_coordinates, mask),
         prev_world_coordinates |-> prev_world_coordinates])

\* Lines 153-156: the range mask of the re-triangulated points, applied to
\* them and to the previous points.
range_filter(world_coordinates, prev_world_coordinates) ==
    Let(RangeMask(world_coordinates), LAMBDA mask :
        [world_coordinates |-> Compress(world_coordinates, mask),
         prev_world_coordinates |-> Compress(prev_world_coordinates, mask)])

\* Lines 158-159: the norms of the differences in the columns 0 and 2.
planar_displacements(world_coordinates, prev_world_coordinates) ==
    Tab([j \in 1..Len(world_coordinates) |->
            Let(RSub(world_coordinates[j][1], prev_world_coordinates[j][1]), LAMBDA dx :
            Let(RSub(world_coordinates[j][3], prev_world_coordinates[j][3]), LAMBDA dz :
                RSqrt(RAdd(RMul(dx, dx), RMul(dz, dz)))))],
        Len(world_coordinates))

\* Lines 160-161: max_velocity = 50; d = d[d < max_velocity * 0.1].
plausible(d) == SelectSeq(d, LAMBDA x : RLt(x, RMul(I2R(50), Dec(1, 10))))

\* Lines 126-162 of the loop body: the points of the previous pair tracked
\* into the current pair, re-triangulated and filtered, and the scale.  The
\* step raises before line 146 when there is no point to track (the tracker
\* returns None for its outputs) and at line 150 when no point is tracked
\* on both sides (triangulatePoints rejects an empty point set).
scale_recovery(self, left, right, flow) ==
    IF Get(self.world_coordinates) = <<>> THEN [error |-> "calcOpticalFlowPyrLK"]
    ELSE
    Let(calcOpticalFlowPyrLK(Transpose(Get(left.valid_matches)), flow.left), LAMBDA lt :
    Let(calcOpticalFlowPyrLK(Transpose(Get(right.valid_matches)), flow.right), LAMBDA rt :
    Let(both_tracked(lt.status, rt.status), LAMBDA status :
        IF Compress(lt.next_pts, status) = <<>> THEN [error |-> "triangulatePoints"]
        ELSE
        Let(Normalised(triangulatePoints(self.P_00, self.P_10,
                                         Transpose(Compress(lt.next_pts, status)),
                                         Transpose(Compress(rt.next_pts, status)))),
            LAMBDA world :
        Let(range_filter(world, Compress(Get(self.world_coordinates), status)),
            LAMBDA kept :
        Let(planar_displacements(kept.world_coordinates, kept.prev_world_coordinates),
            LAMBDA d_all :
            [error |-> "",
             left_next_pts |-> lt.next_pts,
             left_status |-> lt.status,
             right_next_pts |-> rt.next_pts,
             right_status |-> rt.status,
             world_coordinates |-> kept.world_coordinates,
             prev_world_coordinates |-> kept.prev_world_coordinates,
             d_all |-> d_all,
             d |-> plausible(d_all),
             scale |-> median(plausible(d_all))]))))))

\* The least number of correspondences cv2.findFundamentalMat fits a matrix
\* to, in proportion to the few keypoints of the scene.
MinFitPoints == 2

\* np.linalg.svd(E)[1] for a diagonal E: the absolute values of the diagonal
\* in descending order.
svd_S(E) ==
    Let(Sorted(Tab([j \in 1..3 |-> Fix(Abs(E[j][j].v))], 3)), LAMBDA s :
        <<s[3], s[2], s[1]>>)

is_valid_by_smallest(S) == Let(Sorted(S), LAMBDA s : ~RLt(s[1], I2R(100)))

\* Lines 38-41: S = sorted(S); valid unless S[1] < 100 (S[1] is the second).
is_valid(S) == Let(Sorted(S), LAMBDA s : ~RLt(s[2], I2R(100)))

\* R_t_estimation with K the value of the array prev_frames.K refers to,
\* matches the answer of bf.knnMatch and fit what cv2.findFundamentalMat and
\* cv2.recoverPose compute from the accepted correspondences.  Without a
\* fundamental matrix F is None and K.T @ F @ K raises.
R_t_estimation(K, matches, fit) ==
    IF Len(Accepted(matches)) < MinFitPoints
    THEN [error |-> "K.T @ F @ K", F |-> None, K |-> K]
    ELSE Let(MatMul(MatMul(Transpose(K), fit.F), K), LAMBDA E :
             [error |-> "", F |-> fit.F, K |-> K, E |-> E, S |-> svd_S(E),
              R |-> fit.R, t |-> fit.t, valid |-> is_valid(svd_S(E))])

\* Line 171: np.linalg.norm(current_gt_pose - prev_gt_pose) / np.linalg.norm(t).
scale2_of(current_gt_pose, prev_pose, t) ==
    RDiv(RowNorms(<<Tab([j \in 1..3 |-> RSub(current_gt_pose[j], prev_pose[j])], 3)>>)[1],
         RowNorms(<<Transpose(t)[1]>>)[1])

---------------------------------------------------------------------------
(* visual_odometry as a whole: the two constructions, then the loop.       *)

\* What knnMatch answers in the loop: every keypoint matched to its
\* counterpart, with all the matches, none of them or only the first
\* passing the ratio test.
AllPass == Knn([q \in 1..NFeat |-> TRUE], [q \in 1..NFeat |-> q])

NonePass == Knn([q \in 1..NFeat |-> FALSE], [q \in 1..NFeat |-> q])

FirstPass == Knn([q \in 1..NFeat |-> q = 1], [q \in 1..NFeat |-> q])

Track(status, shift) == [status |-> status, shift |-> shift]

Still == Track(1, Zero)

Lost == Track(0, Zero)

\* What the tracker answers for the left and for the right image.  In the
\* full-size scene the three points in range move away by about 1, 2 and 3
\* (Steady), all by about 7 (Fast), or the first is lost in the left image
\* and the third moves out of range (Mixed), or the second is lost in the
\* right image (LostRight), or all are lost (AllLost).
Steady == [left |-> <<Still, Still, Still, Still, Still>>,
           right |-> <<Track(1, Dec(5333, 1000)), Track(1, Dec(7272, 10000)),
                       Track(1, Dec(1811, 10000)), Still, Still>>]

Fast == [left |-> <<Still, Still, Still, Still, Still>>,
         right |-> <<Track(1, Dec(186655, 10000)), Track(1, Dec(20739, 10000)),
                     Track(1, Dec(3930, 10000)), Still, Still>>]

Mixed == [left |-> <<Lost, Still, Still, Still, Still>>,
          right |-> <<Track(1, Dec(5333, 1000)), Track(1, Dec(3809, 10000)),
                      Track(1, Dec(14221, 10000)), Still, Still>>]

LostRight == [left |-> <<Still, Still, Still, Still, Still>>,
              right |-> <<Track(1, Dec(5333, 1000)), Lost,
                          Track(1, Dec(1811, 10000)), Still, Still>>]

AllLost == [left |-> <<Lost, Lost, Lost, Lost, Lost>>,
            right |-> <<Still, Still, Still, Still, Still>>]

FlowFields == {Steady, Fast, Mixed, LostRight, AllLost}

Diag(a, b, c) == <<<<a, Zero, Zero>>, <<Zero, b, Zero>>, <<Zero, Zero, c>>>>

\* What findFundamentalMat and recoverPose answer.  With the full-size K the
\* singular values of E are 150, 150, 0, or 150, 80, 0, or 150, 100, 0.
Fits ==
    {[F |-> Diag(Dec(3, 2), Dec(3, 2), Zero), R |-> Rz90, t |-> ex],
     [F |-> Diag(Dec(4, 5), Dec(3, 2), Zero), R |-> Rx90, t |-> ez],
     [F |-> Diag(Dec(3, 2), One, Zero), R |-> Rz90, t |-> ex]}

\* The locals of the loop body before they are assigned.  error names the
\* call that raised, once one has.
NoLocals ==
    [error |-> "", dt |-> None, matches |-> None,
     left_next_pts |-> None, left_status |-> None,
     right_next_pts |-> None, right_status |-> None,
     world_coordinates |-> None, prev_world_coordinates |-> None,
     d_all |-> None, d |-> None, scale |-> None,
     F |-> None, K |-> None, E |-> None, S |-> None,
     R |-> None, t |-> None, valid |-> None]

\* The DualFrames object a variable holds, and its Frames.
Prev == Get(prev_frames)

Current == Get(current_frames)

\* The run at line 79, the reference trajectory given: the two trajectories
\* exist, nothing else.
RunStart ==
    /\ trajectory = Trajectory_init
    /\ trajectory2 = Trajectory_init
    /\ calls = <<>>
    /\ heap = <<>>
    /\ prev_frames = None
    /\ current_frames = None
    /\ K_cam1 = K_calib
    /\ pc = "start"
    /\ frame_i = 1
    /\ current_time = Zero
    /\ prev_gt_pose = reference[1]
    /\ lcl = NoLocals

Init ==
    /\ SideInit
    /\ down_sample \in DownSamples
    /\ RunStart

\* Lines 80-89.
ConstructPrev ==
    /\ pc = "start"
    /\ \E c \in {DualFrames_init(heap, K_cam1, Some(Image(0, 0)), Some(Image(0, 1)),
                                  down_sample)} :
          /\ prev_frames' = Some(c.self)
          /\ heap' = c.heap
          /\ K_cam1' = c.K
    /\ pc' = "prev_built"
    /\ UNCHANGED sideVars
    /\ UNCHANGED <<trajVars, loopVars, current_frames, down_sample, lcl>>

\* Lines 91-112.
ConstructCurrent ==
    /\ pc = "prev_built"
    /\ \E c \in {DualFrames_init(heap, K_cam1, None, None, down_sample)} :
          /\ current_frames' = Some(c.self)
          /\ heap' = c.heap
          /\ K_cam1' = c.K
    /\ pc' = "loop"
    /\ UNCHANGED sideVars
    /\ UNCHANGED <<trajVars, loopVars, prev_frames, down_sample, lcl>>

\* Lines 113-122: the next index, its dt, and the current pair's new Frames.
LoopHead ==
    /\ pc = "loop"
    /\ frame_i < Len(reference)
    /\ \E dt \in Dts :
          /\ current_time' = RAdd(current_time, dt)
          /\ lcl' = [NoLocals EXCEPT !.dt = dt]
    /\ \E u \in {update_frames(Current, heap, Some(Image(frame_i, 0)),
                                Some(Image(frame_i, 1)))} :
          /\ current_frames' = Some(u.self)
          /\ heap' = Collect(u.heap, FramesOf(prev_frames) \cup FramesOf(Some(u.self)))
    /\ pc' = "updated"
    /\ UNCHANGED sideVars
    /\ UNCHANGED <<trajVars, trajectory2, frame_i, prev_gt_pose, prev_frames,
                   K_cam1, down_sample>>

SolvePrev_on_current ==
    /\ pc = "updated"
    /\ \E matches \in {AllPass, NonePass} :
          \E r \in {SolveStereo(Current, matches)} :
              /\ pc' = IF r.raised THEN "raised" ELSE "solved"
              /\ current_frames' = Some(r.self)
              /\ heap' = r.heap
              /\ lcl' = [lcl EXCEPT !.matches = matches,
                                    !.error = IF r.raised THEN "solve_stereo" ELSE ""]
    /\ UNCHANGED sideVars
    /\ UNCHANGED <<trajVars, loopVars, prev_frames, K_cam1, down_sample>>

\* Line 124.
SolvePrev ==
    /\ pc = "updated"
    /\ \E matches \in {AllPass, NonePass} :
          \E r \in {SolveStereo(Prev, matches)} :
              /\ pc' = IF r.raised THEN "raised" ELSE "solved"
              /\ prev_frames' = Some(r.self)
              /\ heap' = r.heap
              /\ lcl' = [lcl EXCEPT !.matches = matches,
                                    !.error = IF r.raised THEN "solve_stereo" ELSE ""]
    /\ UNCHANGED sideVars
    /\ UNCHANGED <<trajVars, loopVars, current_frames, K_cam1, down_sample>>

\* Lines 126-162.
ScaleRecovery ==
    /\ pc = "solved"
    /\ \E flow \in FlowFields :
          \E r \in {scale_recovery(Prev, heap[Prev.left_frame],
                                   heap[Prev.right_frame], flow)} :
              IF r.error # ""
              THEN /\ pc' = "raised"
                   /\ lcl' = [lcl EXCEPT !.error = r.error]
              ELSE /\ pc' = "scaled"
                   /\ lcl' = [lcl EXCEPT
                                 !.left_next_pts = r.left_next_pts,
                                 !.left_status = r.left_status,
                                 !.right_next_pts = r.right_next_pts,
                                 !.right_status = r.right_status,
                                 !.world_coordinates = r.world_coordinates,
                                 !.prev_world_coordinates = r.prev_world_coordinates,
                                 !.d_all = r.d_all,
                                 !.d = r.d,
                                 !.scale = r.scale]
    /\ UNCHANGED sideVars
    /\ UNCHANGED <<trajVars, loopVars, frameVars>>

\* Lines 164-168.
Estimate ==
    /\ pc = "scaled"
    /\ \E matches \in {AllPass, FirstPass}, fit \in Fits :
          \E r \in {R_t_estimation(K_cam1, matches, fit)} :
              IF r.error # ""
              THEN /\ pc' = "raised"
                   /\ lcl' = [lcl EXCEPT !.error = r.error, !.F = r.F, !.K = r.K]
              ELSE /\ pc' = "estimated"
                   /\ lcl' = [lcl EXCEPT !.F = r.F, !.K = r.K, !.E = r.E, !.S = r.S,
                                         !.R = r.R, !.t = r.t, !.valid = r.valid]
    /\ UNCHANGED sideVars
    /\ UNCHANGED <<trajVars, loopVars, frameVars>>

Integrate_scaling_by_reference ==
    /\ pc = "estimated"
    /\ \E scale2 \in {scale2_of(reference[frame_i + 1], prev_gt_pose, lcl.t)} :
          /\ trajectory' = Trajectory_update(trajectory, lcl.R, lcl.t, lcl.dt,
                                             scale2, lcl.valid)
          /\ trajectory2' = Trajectory_update(trajectory2, lcl.R, lcl.t, lcl.dt,
                                              scale2, TRUE)
    /\ calls' = Append(calls, Call(lcl.R, lcl.t, lcl.dt, lcl.scale, lcl.valid))
    /\ prev_gt_pose' = reference[frame_i + 1]
    /\ prev_frames' = Some(DualFrames_copy(Prev, Current))
    /\ heap' = Collect(heap, FramesOf(current_frames))
    /\ frame_i' = frame_i + 1
    /\ lcl' = NoLocals
    /\ pc' = "loop"
    /\ UNCHANGED sideVars
    /\ UNCHANGED <<current_time, current_frames, K_cam1, down_sample>>

\* Lines 170-178: the two trajectories updated, the previous pair made to
\* refer to the Frames of the current pair.
Integrate ==
    /\ pc = "estimated"
    /\ trajectory' = Trajectory_update(trajectory, lcl.R, lcl.t, lcl.dt,
                                       lcl.scale, lcl.valid)
    /\ trajectory2' = Trajectory_update(trajectory2, lcl.R, lcl.t, lcl.dt,
                                        scale2_of(reference[frame_i + 1], prev_gt_pose,
                                                  lcl.t),
                                        TRUE)
    /\ calls' = Append(calls, Call(lcl.R, lcl.t, lcl.dt, lcl.scale, lcl.valid))
    /\ prev_gt_pose' = reference[frame_i + 1]
    /\ prev_frames' = Some(DualFrames_copy(Prev, Current))
    /\ heap' = Collect(heap, FramesOf(current_frames))
    /\ frame_i' = frame_i + 1
    /\ lcl' = NoLocals
    /\ pc' = "loop"
    /\ UNCHANGED sideVars
    /\ UNCHANGED <<current_time, current_frames, K_cam1, down_sample>>

\* Lines 180-188, once the range of the loop is exhausted.
Finish ==
    /\ pc = "loop"
    /\ frame_i >= Len(reference)
    /\ pc' = "done"
    /\ UNCHANGED sideVars
    /\ UNCHANGED <<trajVars, loopVars, frameVars, lcl>>

Next ==
    \/ ConstructPrev
    \/ ConstructCurrent
    \/ LoopHead
    \/ SolvePrev
    \/ ScaleRecovery
    \/ Estimate
    \/ Integrate
    \/ Finish

Spec == Init /\ [][Next]_vars

\* The run as shipped (down_sample = 1 at line 79) over a short drive, with
\* either reference.
InitReference ==
    /\ reference \in References
    /\ FilterIdle
    /\ DeviceIdle
    /\ CaptureIdle
    /\ FilesIdle
    /\ down_sample = 1
    /\ RunStart

SpecReference == InitReference /\ [][Next]_vars

---------------------------------------------------------------------------
(* The capture service: blueprints/capture_bp.py. Every HTTP request is    *)
(* handled on a thread of its own; a handler and a capture thread take     *)
(* one step per statement that reads or writes the shared AppState.        *)

MaxRequests == 3

Routes == {"/start", "/stop", "/status"}

\* Either mode, with or without the VideoCapture import having succeeded.
Configs == [DEVELOPMENT_MODE : BOOLEAN, video_capture : BOOLEAN]

\* A request just received: no response yet. saw is filled in by /stop: the
\* capture threads in their body at the moment the event was set, how many
\* threads had been started, and whether a /start was between its line 113
\* and the start of its thread.
Request(route) ==
    [route |-> route, pc |-> "received", code |-> 0, running |-> None, saw |-> None]

\* threading.Thread(target=_run_capture_thread, ...).start()
Thread == [pc |-> "start"]

\* return jsonify(...), code
Respond(r, code, running) ==
    [requests EXCEPT ![r].pc = "done", ![r].code = code, ![r].running = running]

At(r, route, where) ==
    /\ r \in DOMAIN requests
    /\ requests[r].route = route
    /\ requests[r].pc = where

Goto(t, where) == [capture_threads EXCEPT ![t].pc = where]

\* The capture threads that are in the body of _run_capture_thread, before
\* its finally block.
InBody == {t \in DOMAIN capture_threads : capture_threads[t].pc \in {"start", "record"}}

CaptureInit ==
    /\ OdometryIdle
    /\ DatasetLoaded
    /\ FilterIdle
    /\ DeviceIdle
    /\ FilesIdle
    /\ config \in Configs
    /\ AppState_init

\* The server accepts one more request.
Receive ==
    /\ Len(requests) < MaxRequests
    /\ \E route \in Routes : requests' = Append(requests, Request(route))
    /\ UNCHANGED <<config, state_lock, is_running, stop_evt, capture_threads>>
    /\ UNCHANGED <<odoVars, datasetVars, filterVars, filesVars, deviceVars>>

\* start_capture, line 110: with st._state_lock
start_capture_lock(r) ==
    /\ At(r, "/start", "received")
    /\ state_lock = None
    /\ state_lock' = Some(r)
    /\ requests' = [requests EXCEPT ![r].pc = "locked"]
    /\ UNCHANGED <<config, is_running, stop_evt, capture_threads>>
    /\ UNCHANGED <<odoVars, datasetVars, filterVars, filesVars, deviceVars>>

\* The variant of the next definition without line 113.
start_capture_check_without_clear(r) ==
    /\ At(r, "/start", "locked")
    /\ IF is_running
       THEN /\ requests' = Respond(r, 409, None)
            /\ state_lock' = None
       ELSE /\ requests' = [requests EXCEPT ![r].pc = "cleared"]
            /\ UNCHANGED state_lock
    /\ UNCHANGED <<config, is_running, stop_evt, capture_threads>>
    /\ UNCHANGED <<odoVars, datasetVars, filterVars, filesVars, deviceVars>>

\* start_capture, lines 111-113: the 409 answer (which releases the lock), or
\* st._stop_evt.clear()
start_capture_check(r) ==
    /\ At(r, "/start", "locked")
    /\ IF is_running
       THEN /\ requests' = Respond(r, 409, None)
            /\ state_lock' = None
            /\ UNCHANGED stop_evt
       ELSE /\ requests' = [requests EXCEPT ![r].pc = "cleared"]
            /\ stop_evt' = FALSE
            /\ UNCHANGED state_lock
    /\ UNCHANGED <<config, is_running, capture_threads>>
    /\ UNCHANGED <<odoVars, datasetVars, filterVars, filesVars, deviceVars>>

\* start_capture, line 114: st._is_running = True
start_capture_mark(r) ==
    /\ At(r, "/start", "cleared")
    /\ is_running' = TRUE
    /\ requests' = [requests EXCEPT ![r].pc = "marked"]
    /\ UNCHANGED <<config, state_lock, stop_evt, capture_threads>>
    /\ UNCHANGED <<odoVars, datasetVars, filterVars, filesVars, deviceVars>>

\* start_capture, lines 115-120: the thread is created and started, the lock
\* released, the answer sent.
start_capture_thread(r) ==
    /\ At(r, "/start", "marked")
    /\ capture_threads' = Append(capture_threads, Thread)
    /\ state_lock' = None
    /\ requests' = Respond(r, 200, None)
    /\ UNCHANGED <<config, is_running, stop_evt>>
    /\ UNCHANGED <<odoVars, datasetVars, filterVars, filesVars, deviceVars>>

\* stop_capture: st._stop_evt.set(), without the lock.
stop_capture(r) ==
    /\ At(r, "/stop", "received")
    /\ stop_evt' = TRUE
    /\ requests' = [Respond(r, 200, None) EXCEPT
                        ![r].saw = Some([body |-> InBody,
                                         threads |-> Len(capture_threads),
                                         starting |-> \E q \in DOMAIN requests :
                                             requests[q].pc \in {"cleared", "marked"}])]
    /\ UNCHANGED <<config, state_lock, is_running, capture_threads>>
    /\ UNCHANGED <<odoVars, datasetVars, filterVars, filesVars, deviceVars>>

\* status: the flag read under the lock, which is taken and released within
\* the one statement.
status(r) ==
    /\ At(r, "/status", "received")
    /\ state_lock = None
    /\ requests' = Respond(r, 200, Some(is_running))
    /\ UNCHANGED <<config, state_lock, is_running, stop_evt, capture_threads>>
    /\ UNCHANGED <<odoVars, datasetVars, filterVars, filesVars, deviceVars>>

\* _run_capture_thread, lines 50-59: outside DEVELOPMENT_MODE the preview
\* camera the handle refers to is stopped and closed and the handle set to
\* None, without _picam_lock.
close_preview(production) ==
    IF production /\ picam2 # None
    THEN /\ cameras' = cameras \ {picam2[1]}
         /\ picam2' = None
    ELSE UNCHANGED <<picam2, cameras>>

\* The variant of the next definition in which the return at line 40 leaves
\* the function without the finally block.
run_capture_start_returning_early(t) ==
    /\ t \in DOMAIN capture_threads
    /\ capture_threads[t].pc = "start"
    /\ \E made \in BOOLEAN :
           /\ capture_threads' = Goto(t, IF ~made THEN "ended"
                                         ELSE IF config.DEVELOPMENT_MODE THEN "record"
                                         ELSE IF ~config.video_capture THEN "finally"
                                         ELSE "record")
           /\ close_preview(made /\ ~config.DEVELOPMENT_MODE)
    /\ UNCHANGED <<config, state_lock, is_running, stop_evt, requests>>
    /\ UNCHANGED <<odoVars, datasetVars, filterVars, filesVars>>
    /\ UNCHANGED <<preview_ctrls, metricsVars, picam_lock, previews>>

\* _run_capture_thread, lines 33-79: os.makedirs succeeds or raises; a raise
\* returns, and so does a missing video_capture outside DEVELOPMENT_MODE;
\* every return is inside the try of line 34. Between the two, outside
\* DEVELOPMENT_MODE, the preview camera is closed.
run_capture_start(t) ==
    /\ t \in DOMAIN capture_threads
    /\ capture_threads[t].pc = "start"
    /\ \E made \in BOOLEAN :
           /\ capture_threads' = Goto(t, IF ~made THEN "finally"
                                         ELSE IF config.DEVELOPMENT_MODE THEN "record"
                                         ELSE IF ~config.video_capture THEN "finally"
                                         ELSE "record")
           /\ close_preview(made /\ ~config.DEVELOPMENT_MODE)
    /\ UNCHANGED <<config, state_lock, is_running, stop_evt, requests>>
    /\ UNCHANGED <<odoVars, datasetVars, filterVars, filesVars>>
    /\ UNCHANGED <<preview_ctrls, metricsVars, picam_lock, previews>>

\* _run_capture_thread, lines 44-47 and 80-91: the simulated recording and
\* video_capture both run until the stop event is set; video_capture may
\* also raise at any time, which line 90 catches.
run_capture_record(t) ==
    /\ t \in DOMAIN capture_threads
    /\ capture_threads[t].pc = "record"
    /\ stop_evt \/ ~config.DEVELOPMENT_MODE
    /\ capture_threads' = Goto(t, "finally")
    /\ UNCHANGED <<config, state_lock, is_running, stop_evt, requests>>
    /\ UNCHANGED <<odoVars, datasetVars, filterVars, filesVars, deviceVars>>

\* _run_capture_thread, lines 92-95: with state._state_lock:
\* state._is_running = False
run_capture_finally(t) ==
    /\ t \in DOMAIN capture_threads
    /\ capture_threads[t].pc = "finally"
    /\ state_lock = None
    /\ is_running' = FALSE
    /\ capture_threads' = Goto(t, "clear")
    /\ UNCHANGED <<config, state_lock, stop_evt, requests>>
    /\ UNCHANGED <<odoVars, datasetVars, filterVars, filesVars, deviceVars>>

\* _run_capture_thread, line 96: state._stop_evt.clear(), after the lock is
\* released; the thread ends.
run_capture_clear(t) ==
    /\ t \in DOMAIN capture_threads
    /\ capture_threads[t].pc = "clear"
    /\ stop_evt' = FALSE
    /\ capture_threads' = Goto(t, "ended")
    /\ UNCHANGED <<config, state_lock, is_running, requests>>
    /\ UNCHANGED <<odoVars, datasetVars, filterVars, filesVars, deviceVars>>

CaptureNext ==
    \/ Receive
    \/ \E r \in 1..MaxRequests : start_capture_lock(r)
    \/ \E r \in 1..MaxRequests : start_capture_check(r)
    \/ \E r \in 1..MaxRequests : start_capture_mark(r)
    \/ \E r \in 1..MaxRequests : start_capture_thread(r)
    \/ \E r \in 1..MaxRequests : stop_capture(r)
    \/ \E r \in 1..MaxRequests : status(r)
    \/ \E t \in 1..MaxRequests : run_capture_start(t)
    \/ \E t \in 1..MaxRequests : run_capture_record(t)
    \/ \E t \in 1..MaxRequests : run_capture_finally(t)
    \/ \E t \in 1..MaxRequests : run_capture_clear(t)

SpecCapture == CaptureInit /\ [][CaptureNext]_vars

\* The capture thread t finds the stop event set: the loop of line 46 ends,
\* or the wait of VideoCapture.py:89 returns true.
ObservesStop(t) == stop_evt /\ run_capture_record(t)

\* Every handler and every capture thread keeps being scheduled: a step
\* that stays possible is taken. Nothing makes a client send a request, and
\* nothing makes video_capture raise.
CaptureFairness ==
    /\ \A r \in 1..MaxRequests :
           /\ WF_vars(start_capture_lock(r))
           /\ WF_vars(start_capture_check(r))
           /\ WF_vars(start_capture_mark(r))
           /\ WF_vars(start_capture_thread(r))
           /\ WF_vars(stop_capture(r))
           /\ WF_vars(status(r))
    /\ \A t \in 1..MaxRequests :
           /\ WF_vars(run_capture_start(t))
           /\ WF_vars(ObservesStop(t))
           /\ WF_vars(run_capture_finally(t))
           /\ WF_vars(run_capture_clear(t))

SpecCaptureLive == SpecCapture /\ CaptureFairness

---------------------------------------------------------------------------
(* Paths: core/utils.py _safe_under_base and the os.path functions it      *)
(* calls, on POSIX. A string is the sequence of its characters.            *)

MaxRel == 5

\* The characters a user-supplied path is made of here: the two separators
\* that lstrip names, the dot, a blank, and a name character.
Chars == {"/", "\\", ".", " ", "s"}

\* Every string of at most n characters.
Strings(n) == UNION {[1..k -> Chars] : k \in 0..n}

\* os.getcwd()
cwd == <<"/", "w">>

\* str.lstrip(chars)
RECURSIVE lstrip(_, _)
lstrip(s, chars) ==
    IF s # <<>> /\ Head(s) \in chars THEN lstrip(Tail(s), chars) ELSE s

\* str.rstrip(chars)
RECURSIVE rstrip(_, _)
rstrip(s, chars) ==
    IF s # <<>> /\ s[Len(s)] \in chars
    THEN rstrip(SubSeq(s, 1, Len(s) - 1), chars)
    ELSE s

\* str.strip(): white space off both ends.
strip(s) == rstrip(lstrip(s, {" "}), {" "})

\* str.startswith(prefix): character by character.
startswith(s, prefix) ==
    /\ Len(prefix) <= Len(s)
    /\ SubSeq(s, 1, Len(prefix)) = prefix

\* str.find(sep) + 1, for a sep that occurs in s.
find(s, sep) == CHOOSE k \in 1..Len(s) : s[k] = sep /\ \A j \in 1..(k - 1) : s[j] # sep

\* str.split(sep)
RECURSIVE split(_, _)
split(s, sep) ==
    IF \A k \in 1..Len(s) : s[k] # sep
    THEN <<s>>
    ELSE <<SubSeq(s, 1, find(s, sep) - 1)>>
             \o split(SubSeq(s, find(s, sep) + 1, Len(s)), sep)

\* sep.join(comps)
RECURSIVE join(_, _)
join(sep, comps) ==
    IF comps = <<>> THEN <<>>
    ELSE IF Len(comps) = 1 THEN comps[1]
    ELSE comps[1] \o <<sep>> \o join(sep, Tail(comps))

\* posixpath.join(a, b)
path_join(a, b) ==
    IF startswith(b, <<"/">>) THEN b
    ELSE IF a = <<>> \/ a[Len(a)] = "/" THEN a \o b
    ELSE a \o <<"/">> \o b

\* posixpath.normpath: the loop over the components.
RECURSIVE new_comps(_, _, _)
new_comps(comps, new, initial_slashes) ==
    IF comps = <<>> THEN new
    ELSE new_comps(Tail(comps),
             IF Head(comps) \in {<<>>, <<".">>} THEN new
             ELSE IF \/ Head(comps) # <<".", ".">>
                     \/ (initial_slashes = 0 /\ new = <<>>)
                     \/ (new # <<>> /\ new[Len(new)] = <<".", ".">>)
                  THEN Append(new, Head(comps))
             ELSE IF new # <<>> THEN SubSeq(new, 1, Len(new) - 1)
             ELSE new,
             initial_slashes)

\* posixpath.normpath: one leading slash, or two when there are exactly two.
initial_slashes(path) ==
    IF ~startswith(path, <<"/">>) THEN 0
    ELSE IF startswith(path, <<"/", "/">>) /\ ~startswith(path, <<"/", "/", "/">>) THEN 2
    ELSE 1

\* posixpath.normpath
normpath(path) ==
    IF path = <<>> THEN <<".">>
    ELSE Let([k \in 1..initial_slashes(path) |-> "/"]
                 \o join("/", new_comps(split(path, "/"), <<>>, initial_slashes(path))),
             LAMBDA p : IF p = <<>> THEN <<".">> ELSE p)

\* posixpath.abspath
abspath(path) ==
    normpath(IF startswith(path, <<"/">>) THEN path ELSE path_join(cwd, path))

\* _safe_under_base(base, rel): the target, or ValueError.
safe_under_base(base, rel) ==
    Let(abspath(path_join(base, lstrip(strip(rel), {"/", "\\"}))),
        LAMBDA target :
            IF ~startswith(target, abspath(base))
            THEN [raised |-> Some("ValueError"), target |-> None]
            ELSE [raised |-> None, target |-> Some(target)])

\* Base directories: a save directory, the same written with a trailing
\* separator, a nested and a relative one, and the file system root.
Bases == {<<"/", "s">>, <<"/", "s", "/">>, <<"/", "s", "/", "s">>, <<"s">>, <<"/">>}

PathInit ==
    /\ OdometryIdle
    /\ DatasetLoaded
    /\ FilterIdle
    /\ DeviceIdle
    /\ CaptureIdle
    /\ fs = {}
    /\ last \in [base : Bases, rel : Strings(MaxRel), called : {FALSE},
                 outcome : {None}]

\* One call of _safe_under_base on the arguments drawn.
SafeUnderBase ==
    /\ ~last.called
    /\ last' = [last EXCEPT !.called = TRUE,
                            !.outcome = Some(safe_under_base(last.base, last.rel))]
    /\ UNCHANGED fs
    /\ UNCHANGED <<odoVars, datasetVars, filterVars, captureVars, deviceVars>>

PathNext == SafeUnderBase

SpecPath == PathInit /\ [][PathNext]_vars

---------------------------------------------------------------------------
(* The file manager: blueprints/files_bp.py delete_entry, over a save      *)
(* directory that holds the two media folders and one recording.           *)

\* The directory named by the normalised absolute path p is dir itself or
\* lies in the tree below it.
InTree(p, dir) ==
    \/ p = dir
    \/ startswith(p, IF dir[Len(dir)] = "/" THEN dir ELSE dir \o <<"/">>)

\* state.CURRENT_SAVE_DIR
SaveDir == <<"/", "s">>

videos == <<"v", "i", "d", "e", "o", "s">>

images == <<"i", "m", "a", "g", "e", "s">>

trash == <<".", "t", "r", "a", "s", "h">>

\* The path of the entry with these components below the save directory.
Entry(comps) == SaveDir \o <<"/">> \o join("/", comps)

\* The save directory as the application leaves it after a recording.
SaveTree == {SaveDir, Entry(<<videos>>), Entry(<<videos, <<"a">>>>), Entry(<<images>>)}

\* uuid.uuid4().hex[:8], shortened to one character.
Uids == {"0", "1"}

\* What a client may send as "path": nothing, the root written in three
\* ways, a protected folder written in three ways, and the path of any
\* entry that exists, as the file listing shows it.
DeletePaths(files) ==
    {<<>>, <<".">>, <<".", ".">>, <<".", ".", "/", "s">>,
     videos, videos \o <<"/">>, <<"/">> \o videos, images}
        \cup {SubSeq(p, Len(SaveDir) + 2, Len(p)) : p \in files \ {SaveDir}}

\* rel.replace("/", os.sep).replace("\\", os.sep)
norm_rel(rel) == [k \in DOMAIN rel |-> IF rel[k] = "\\" THEN "/" ELSE rel[k]]

\* ".trash" in norm_rel.split(os.sep)
is_in_trash(rel) ==
    \E k \in DOMAIN split(norm_rel(rel), "/") : split(norm_rel(rel), "/")[k] = trash

\* shutil.rmtree(target) or os.remove(target)
rmtree(files, target) == {p \in files : ~InTree(p, target)}

\* The loop of lines 225-233: everything below target goes, target stays.
emptied(files, target) == {p \in files : p = target \/ ~InTree(p, target)}

\* shutil.move(target, dest), dest not existing.
move(files, target, dest) ==
    rmtree(files, target)
        \cup {dest \o SubSeq(p, Len(target) + 1, Len(p)) : p \in {q \in files : InTree(q, target)}}

\* os.path.basename(target.rstrip(os.sep)) or "item"
basename(target) ==
    Let(split(rstrip(target, {"/"}), "/"),
        LAMBDA comps : IF comps[Len(comps)] = <<>>
                       THEN <<"i", "t", "e", "m">>
                       ELSE comps[Len(comps)])

\* os.path.splitext(name) has an extension: the last dot comes after a
\* character that is not a dot.
HasExt(name, d) ==
    /\ d \in DOMAIN name
    /\ name[d] = "."
    /\ \A k \in (d + 1)..Len(name) : name[k] # "."
    /\ \E k \in 1..(d - 1) : name[k] # "."

\* Lines 248-250: f"{root}_{uid}{ext}" if ext else f"{name}_{uid}"
trash_name(name, uid) ==
    IF \E d \in DOMAIN name : HasExt(name, d)
    THEN Let(CHOOSE d \in DOMAIN name : HasExt(name, d),
             LAMBDA d : SubSeq(name, 1, d - 1) \o <<"_", uid>> \o SubSeq(name, d, Len(name)))
    ELSE name \o <<"_", uid>>

\* return jsonify(...), code, with the file system as the handler leaves it.
Answer(files, code, action) == [fs |-> files, code |-> code, action |-> action]

\* delete_entry, lines 212-262, once target is known to exist and not to be
\* the base.
delete_target(files, base, rel, permanent, target, uid) ==
    IF permanent
    THEN IF (\A k \in DOMAIN rel : norm_rel(rel)[k] # "/")
                /\ norm_rel(rel) \in {trash, videos, images}
         THEN IF norm_rel(rel) = trash
              THEN Answer(emptied(files, target), 200, "emptied_trash")
              ELSE Answer(files, 403, "")
         ELSE Answer(rmtree(files, target), 200, "deleted")
    ELSE Answer(move(files \cup {path_join(base, trash)}, target,
                     path_join(path_join(base, trash), trash_name(basename(target), uid))),
                200, "moved_to_trash")

\* delete_entry, lines 181-210 and then the above.
delete_entry(files, path, permanent, uid) ==
    Let(strip(path), LAMBDA rel :
        IF rel = <<>> THEN Answer(files, 400, "")
        ELSE Let(safe_under_base(abspath(SaveDir), rel), LAMBDA r :
            IF r.raised # None THEN Answer(files, 400, "")
            ELSE IF r.target[1] \notin files THEN Answer(files, 404, "")
            ELSE IF abspath(r.target[1]) = abspath(SaveDir) THEN Answer(files, 400, "")
            ELSE delete_target(files, abspath(SaveDir), rel,
                               permanent \/ is_in_trash(rel), r.target[1], uid)))

FilesInit ==
    /\ OdometryIdle
    /\ DatasetLoaded
    /\ FilterIdle
    /\ DeviceIdle
    /\ CaptureIdle
    /\ fs = SaveTree
    /\ last = <<>>

\* One POST /delete, handled from the first line to the response.
DeleteEntry ==
    /\ \E path \in DeletePaths(fs), permanent \in BOOLEAN, uid \in Uids :
           \E r \in {delete_entry(fs, path, permanent, uid)} :
               /\ fs' = r.fs
               /\ last' = [path |-> path, permanent |-> permanent,
                           code |-> r.code, action |-> r.action]
    /\ UNCHANGED <<odoVars, datasetVars, filterVars, captureVars, deviceVars>>

FilesNext == DeleteEntry

SpecFiles == FilesInit /\ [][FilesNext]_vars

---------------------------------------------------------------------------
(* The preview controls: core/utils.py _sanitize_and_merge_preview_ctrls   *)
(* and its caller, blueprints/preview_bp.py preview_controls. A JSON value *)
(* is tagged with its type; a float is a decimal or NaN, an int is an      *)
(* integer, a string the sequence of its characters.                       *)

MaxPosts == 2

JInt(n) == [type |-> "int", val |-> n]

JFloat(x) == [type |-> "float", val |-> x]

JStr(s) == [type |-> "str", val |-> s]

JBool(b) == [type |-> "bool", val |-> b]

Digits == <<"0", "1", "2", "3", "4", "5", "6", "7", "8", "9">>

IsDigits(s) == s # <<>> /\ \A k \in DOMAIN s : \E d \in DOMAIN Digits : Digits[d] = s[k]

\* The number written by the digits s.
RECURSIVE Numeral(_)
Numeral(s) ==
    IF s = <<>> THEN 0
    ELSE 10 * Numeral(SubSeq(s, 1, Len(s) - 1))
            + (CHOOSE d \in DOMAIN Digits : Digits[d] = s[Len(s)]) - 1

RECURSIVE Pow10(_)
Pow10(m) == IF m = 0 THEN 1 ELSE 10 * Pow10(m - 1)

\* str.lower() of the letters that occur in the words to_bool and float know.
lower(s) ==
    [k \in DOMAIN s |->
        CASE s[k] = "T" -> "t" [] s[k] = "N" -> "n" [] s[k] = "O" -> "o"
          [] s[k] = "Y" -> "y" [] s[k] = "A" -> "a" [] OTHER -> s[k]]

\* int(s) of a string: blanks off both ends, a sign, digits; None when
\* int raises ValueError.
int_of_str(s) ==
    Let(strip(s), LAMBDA w :
        IF w # <<>> /\ Head(w) \in {"+", "-"} /\ IsDigits(Tail(w))
        THEN Some((IF Head(w) = "-" THEN -1 ELSE 1) * Numeral(Tail(w)))
        ELSE IF IsDigits(w) THEN Some(Numeral(w))
        ELSE None)

\* float(s) of a string without a sign: digits, digits.digits, or nan.
unsigned_float_of_str(w) ==
    IF lower(w) = <<"n", "a", "n">> THEN Some(NaN)
    ELSE IF IsDigits(w) THEN Some(I2R(Numeral(w)))
    ELSE IF Len(split(w, ".")) = 2 /\ IsDigits(split(w, ".")[1]) /\ IsDigits(split(w, ".")[2])
    THEN Some(RAdd(I2R(Numeral(split(w, ".")[1])),
                   Dec(Numeral(split(w, ".")[2]), Pow10(Len(split(w, ".")[2])))))
    ELSE None

\* float(s) of a string; None when float raises ValueError.
float_of_str(s) ==
    Let(strip(s), LAMBDA w :
        IF w # <<>> /\ Head(w) \in {"+", "-"}
        THEN Let(unsigned_float_of_str(Tail(w)), LAMBDA r :
                 IF r = None \/ Head(w) = "+" THEN r ELSE Some(RNeg(r[1])))
        ELSE unsigned_float_of_str(w))

\* to_int, lines 66-68: int(v), None when it raises. int of a float cuts
\* the fraction off and raises on NaN; int(None) raises.
to_int(v) ==
    CASE v.type = "int" -> Some(v.val)
      [] v.type = "float" -> IF IsNaN(v.val) THEN None
                             ELSE Some(Sign(v.val.v) * (Abs(v.val.v) \div Unit))
      [] v.type = "str" -> int_of_str(v.val)
      [] v.type = "bool" -> Some(IF v.val THEN 1 ELSE 0)
      [] OTHER -> None

\* to_float, lines 70-72.
to_float(v) ==
    CASE v.type = "int" -> Some(I2R(v.val))
      [] v.type = "float" -> Some(v.val)
      [] v.type = "str" -> float_of_str(v.val)
      [] v.type = "bool" -> Some(IF v.val THEN One ELSE Zero)
      [] OTHER -> None

\* to_bool, lines 61-64: str(v).lower() in ("1", "true", "yes", "on").
to_bool(v) ==
    CASE v.type = "bool" -> v.val
      [] v.type = "int" -> v.val = 1
      [] v.type = "str" -> lower(v.val) \in {<<"1">>, <<"t", "r", "u", "e">>,
                                            <<"y", "e", "s">>, <<"o", "n">>}
      [] OTHER -> FALSE

\* Python's min(a, b) and max(a, b) of two floats: the first argument,
\* unless the second compares smaller (greater); NaN compares false.
py_min(a, b) == IF RLt(b, a) THEN b ELSE a

py_max(a, b) == IF RLt(a, b) THEN b ELSE a

\* max(lo, min(x, hi)) for the floats of lines 87-112.
clamp(lo, x, hi) == py_max(lo, py_min(x, hi))

\* The clamp range of each float control, lines 84-112.
FloatRange ==
    [k \in Controls \ {"AeEnable", "ExposureTime"} |->
        CASE k \in {"AnalogueGain", "DigitalGain"} -> <<I2R(1), I2R(16)>>
          [] k = "Brightness" -> <<I2R(-1), I2R(1)>>
          [] k \in {"Contrast", "Saturation"} -> <<Zero, I2R(32)>>
          [] k = "Sharpness" -> <<Zero, I2R(16)>>]

\* Lines 74-112: what is stored under control k when update is merged into
\* ctrls.
merged_value(ctrls, update, k) ==
    IF k \notin DOMAIN update THEN ctrls[k]
    ELSE IF k = "AeEnable" THEN Some(to_bool(update[k]))
    ELSE IF k = "ExposureTime"
    THEN Let(to_int(update[k]), LAMBDA et :
             IF et = None THEN ctrls[k]
             ELSE Some(Max(20, IF et[1] < 2000000 THEN et[1] ELSE 2000000)))
    ELSE Let(to_float(update[k]), LAMBDA x :
             IF x = None THEN ctrls[k]
             ELSE Some(clamp(FloatRange[k][1], x[1], FloatRange[k][2])))

\* _sanitize_and_merge_preview_ctrls(state, update): the merged dict, which
\* is stored and returned.
sanitize_and_merge(ctrls, update) ==
    Let([k \in Controls |-> merged_value(ctrls, update, k)], LAMBDA merged :
        IF /\ \E k \in {"ExposureTime", "AnalogueGain", "DigitalGain"} : k \in DOMAIN update
           /\ "AeEnable" \notin DOMAIN update
           /\ merged["AeEnable"] = Some(TRUE)
        THEN [merged EXCEPT !["AeEnable"] = Some(FALSE)]
        ELSE merged)

\* What a client sends for the numeric control c: a word, NaN as a word, a
\* negative and a small integer, a fraction, and an integer above the range
\* of c.
SentValues(c) ==
    {JStr(<<"a", "b", "c">>), JStr(<<"n", "a", "n">>), JInt(-5), JInt(8),
     JFloat(Dec(1, 2)), JInt(IF c = "ExposureTime" THEN 3000000 ELSE 40)}

\* The bodies of POST /preview_controls: one numeric control; AeEnable
\* alone; AeEnable together with the exposure time; a reset.
Bodies ==
    UNION {{[k \in {c} |-> v] : v \in SentValues(c)} : c \in Controls \ {"AeEnable"}}
        \cup {[k \in {"AeEnable"} |-> v] : v \in {JBool(FALSE), JStr(<<"O", "n">>), JInt(0)}}
        \cup {[k \in {"AeEnable", "ExposureTime"} |->
                  IF k = "AeEnable" THEN JBool(b) ELSE v] :
                      b \in BOOLEAN, v \in {JInt(8), JStr(<<"a", "b", "c">>)}}
        \cup {[k \in {"reset"} |-> JBool(TRUE)]}

PreviewInit ==
    /\ OdometryIdle
    /\ SideInit

\* preview_controls, POST: a reset restores the defaults, anything else is
\* merged; no preview camera is running, so nothing is applied to one.
PostPreviewControls ==
    /\ Len(requests) < MaxPosts
    /\ \E body \in Bodies :
           /\ preview_ctrls' = IF "reset" \in DOMAIN body
                               THEN DEFAULT_PREVIEW_CTRLS
                               ELSE sanitize_and_merge(preview_ctrls, body)
           /\ requests' = Append(requests, [route |-> "/preview_controls", pc |-> "done",
                                            code |-> 200, body |-> body])
    /\ UNCHANGED <<config, state_lock, is_running, stop_evt, capture_threads>>
    /\ UNCHANGED <<odoVars, datasetVars, filterVars, filesVars, metricsVars, cameraVars>>

PreviewNext == PostPreviewControls

SpecPreview == PreviewInit /\ [][PreviewNext]_vars

---------------------------------------------------------------------------
(* CPU utilisation: core/hardware.py _read_cpu_util_percent, which the     *)
(* /metrics handler of the application package calls, and the function of  *)
(* the same name in app.py. Production mode, /proc/stat readable.          *)

MaxJiffies == 3

MaxReads == 3

\* idle + iowait, line 60.
idle_all(stat) == stat[4] + stat[5]

\* idle_all + non_idle, lines 61-62.
total_of(stat) == idle_all(stat) + stat[1] + stat[2] + stat[3] + stat[6] + stat[7] + stat[8]

\* Lines 66-71 given the totals kept from before: None when the total has
\* not advanced, else the busy share of the interval in percent.
utilisation(stat, prev) ==
    IF total_of(stat) - prev.total[1] <= 0 THEN None
    ELSE Some(py_max(Zero,
                     py_min(I2R(100),
                            Dec(((total_of(stat) - prev.total[1])
                                     - (idle_all(stat) - prev.idle[1])) * 100,
                                total_of(stat) - prev.total[1]))))

Read(by, stat, result) ==
    [by |-> by, total |-> total_of(stat), idle |-> idle_all(stat), result |-> result]

CpuInit ==
    /\ OdometryIdle
    /\ SideInit

\* The kernel counts one more jiffy as user time, idle time or I/O wait.
Tick ==
    /\ total_of(proc_stat) < MaxJiffies
    /\ \E f \in {1, 4, 5} : proc_stat' = [proc_stat EXCEPT ![f] = @ + 1]
    /\ UNCHANGED <<preview_ctrls, state_prev, app_prev, cpu_log, cameraVars>>
    /\ UNCHANGED <<odoVars, datasetVars, filterVars, captureVars, filesVars>>

\* hardware.py, _read_cpu_util_percent(config, state): lines 64 and 68
\* assign the local names _prev_total and _prev_idle, so the attributes of
\* state keep their values.
read_cpu_util_percent ==
    /\ Len(cpu_log) < MaxReads
    /\ cpu_log' = Append(cpu_log,
                         Read("hardware", proc_stat,
                              IF state_prev.total = None THEN None
                              ELSE utilisation(proc_stat, state_prev)))
    /\ UNCHANGED state_prev
    /\ UNCHANGED <<preview_ctrls, proc_stat, app_prev, cameraVars>>
    /\ UNCHANGED <<odoVars, datasetVars, filterVars, captureVars, filesVars>>

\* app.py, _read_cpu_util_percent(): the names are declared global at line
\* 272, so lines 284 and 288 keep the totals.
app_read_cpu_util_percent ==
    /\ Len(cpu_log) < MaxReads
    /\ cpu_log' = Append(cpu_log,
                         Read("app", proc_stat,
                              IF app_prev.total = None THEN None
                              ELSE utilisation(proc_stat, app_prev)))
    /\ app_prev' = [total |-> Some(total_of(proc_stat)), idle |-> Some(idle_all(proc_stat))]
    /\ UNCHANGED <<preview_ctrls, proc_stat, state_prev, cameraVars>>
    /\ UNCHANGED <<odoVars, datasetVars, filterVars, captureVars, filesVars>>

CpuNext ==
    \/ Tick
    \/ read_cpu_util_percent
    \/ app_read_cpu_util_percent

SpecCpu == CpuInit /\ [][CpuNext]_vars

---------------------------------------------------------------------------
(* The preview camera: /preview.mjpg and _ensure_picam2, in app.py and in  *)
(* the application package, beside the capture service. A preview          *)
(* instance is named after the request that opened it.                     *)

MaxPreviews == 2

\* A /preview.mjpg request just received, by app.py or by the package.
Preview(app) == [app |-> app, pc |-> "received", code |-> 0]

PreviewAt(p, app, where) ==
    /\ p \in DOMAIN previews
    /\ previews[p].app = app
    /\ previews[p].pc = where

PreviewGoto(p, where, code) == [previews EXCEPT ![p].pc = where, ![p].code = code]

CameraInit == CaptureInit

\* The server accepts one more /preview.mjpg request.
ReceivePreview ==
    /\ Len(previews) < MaxPreviews
    /\ \E app \in BOOLEAN : previews' = Append(previews, Preview(app))
    /\ UNCHANGED <<picam2, picam_lock, cameras>>
    /\ UNCHANGED <<preview_ctrls, metricsVars>>
    /\ UNCHANGED <<odoVars, datasetVars, filterVars, captureVars, filesVars>>

\* preview_bp.py, lines 25-32: 503 in DEVELOPMENT_MODE; otherwise the call
\* of line 29 passes two arguments to the one-parameter _ensure_picam2 of
\* core/hardware.py, which raises TypeError, and line 32 answers 503.
preview_mjpg(p) ==
    /\ PreviewAt(p, FALSE, "received")
    /\ previews' = PreviewGoto(p, "done", 503)
    /\ UNCHANGED <<picam2, picam_lock, cameras>>
    /\ UNCHANGED <<preview_ctrls, metricsVars>>
    /\ UNCHANGED <<odoVars, datasetVars, filterVars, captureVars, filesVars>>

\* app.py, lines 523-527 and 386: 503 in DEVELOPMENT_MODE; otherwise
\* _ensure_picam2 takes _picam_lock.
app_preview_mjpg(p) ==
    /\ PreviewAt(p, TRUE, "received")
    /\ IF config.DEVELOPMENT_MODE
       THEN /\ previews' = PreviewGoto(p, "done", 503)
            /\ UNCHANGED picam_lock
       ELSE /\ picam_lock = None
            /\ picam_lock' = Some(p)
            /\ previews' = PreviewGoto(p, "locked", 0)
    /\ UNCHANGED <<picam2, cameras>>
    /\ UNCHANGED <<preview_ctrls, metricsVars>>
    /\ UNCHANGED <<odoVars, datasetVars, filterVars, captureVars, filesVars>>

\* _ensure_picam2 of app.py, lines 388-397: the instance the handle refers
\* to is stopped and closed, the handle set to None.
ensure_picam2_reset(p) ==
    /\ PreviewAt(p, TRUE, "locked")
    /\ IF picam2 # None
       THEN /\ cameras' = cameras \ {picam2[1]}
            /\ picam2' = None
       ELSE UNCHANGED <<picam2, cameras>>
    /\ previews' = PreviewGoto(p, "reset", 0)
    /\ UNCHANGED picam_lock
    /\ UNCHANGED <<preview_ctrls, metricsVars>>
    /\ UNCHANGED <<odoVars, datasetVars, filterVars, captureVars, filesVars>>

\* _ensure_picam2 of app.py, lines 399-418: Picamera2() opens an instance,
\* or the constructor is missing or raises: the with statement releases the
\* lock and line 530 answers 503.
ensure_picam2_open(p) ==
    /\ PreviewAt(p, TRUE, "reset")
    /\ \E opened \in BOOLEAN :
           IF opened
           THEN /\ cameras' = cameras \cup {p}
                /\ previews' = PreviewGoto(p, "opened", 0)
                /\ UNCHANGED picam_lock
           ELSE /\ previews' = PreviewGoto(p, "done", 503)
                /\ picam_lock' = None
                /\ UNCHANGED cameras
    /\ UNCHANGED picam2
    /\ UNCHANGED <<preview_ctrls, metricsVars>>
    /\ UNCHANGED <<odoVars, datasetVars, filterVars, captureVars, filesVars>>

\* _ensure_picam2 of app.py, lines 419-420, and line 554: the handle refers
\* to the new instance, the lock is released and the stream starts. Nothing
\* closes the instance when the stream ends.
ensure_picam2_assign(p) ==
    /\ PreviewAt(p, TRUE, "opened")
    /\ picam2' = Some(p)
    /\ picam_lock' = None
    /\ previews' = PreviewGoto(p, "streaming", 200)
    /\ UNCHANGED cameras
    /\ UNCHANGED <<preview_ctrls, metricsVars>>
    /\ UNCHANGED <<odoVars, datasetVars, filterVars, captureVars, filesVars>>

CameraNext ==
    \/ CaptureNext
    \/ ReceivePreview
    \/ \E p \in 1..MaxPreviews : preview_mjpg(p)
    \/ \E p \in 1..MaxPreviews : app_preview_mjpg(p)
    \/ \E p \in 1..MaxPreviews : ensure_picam2_reset(p)
    \/ \E p \in 1..MaxPreviews : ensure_picam2_open(p)
    \/ \E p \in 1..MaxPreviews : ensure_picam2_assign(p)

SpecCamera == CameraInit /\ [][CameraNext]_vars

---------------------------------------------------------------------------
(* Claims.                                                                 *)

LastCall == calls[Len(calls)]

\* The position part of A(dt) * x, written out: p + dt * v per axis.
Coast(x, dt) == Tab([j \in 1..3 |-> RAdd(x[j][1], RMul(dt, x[j + 3][1]))], 3)

\* C1: a trajectory step runs predict exactly once and update exactly when
\* the step is valid; in a step that is not valid the appended position is
\* the position part of A(dt) * x_prev, whatever the step's R, t and scale.
C1_PredictOnceUpdateIffValid ==
    [][Len(calls') = Len(calls) + 1 =>
          LET c == calls'[Len(calls')]
              n == Len(trajectory'.trajectory)
          IN  /\ trajectory'.KF.calls
                    = (IF c.valid THEN <<"predict", "update">> ELSE <<"predict">>)
              /\ n = Len(trajectory.trajectory) + 1
              /\ ~c.valid =>
                    trajectory'.trajectory[n] = Coast(trajectory.KF.x, c.dt)]_vars

\* A step that is not valid taken by a filter that is moving.
C1_Witness ==
    /\ Len(calls) = 2
    /\ calls[1].valid
    /\ ~calls[2].valid
    /\ trajectory.trajectory[3] # trajectory.trajectory[2]
    /\ trajectory.KF.calls = <<"predict">>

Defined(x) == ~IsNaN(x)

\* The global translation, the Kalman state and every recorded position of
\* a trajectory are numbers.
AllDefined(tr) ==
    /\ \A j \in 1..3 : Defined(tr.t[j][1])
    /\ \A j \in 1..6 : Defined(tr.KF.x[j][1])
    /\ \A k \in 1..Len(tr.trajectory) : \A j \in 1..3 : Defined(tr.trajectory[k][j])

\* C2: a step of visual_odometry whose scale is undefined (no displacement
\* survived the filters) is passed on as a step that is not valid, so that
\* the filter only predicts, and the global translation, the Kalman state
\* and the positions recorded in that step and in all later ones are
\* numbers, never NaN.
C2_UndefinedScaleDegrades ==
    /\ \A k \in 1..Len(calls) : IsNaN(calls[k].s) => ~calls[k].valid
    /\ AllDefined(trajectory)

\* C3: when R_t_estimation gets no fundamental matrix from the fit it raises
\* nothing: it returns with valid = false and the loop goes on.
C3_NoMatrixReportsInvalid ==
    (lcl.K # None /\ lcl.F = None) => (pc = "estimated" /\ ~lcl.valid)

\* The middle one of three numbers: at least two of them are at most it and
\* at least two of them are at least it.
Middle(S) ==
    CHOOSE x \in {S[1], S[2], S[3]} :
        /\ Cardinality({k \in 1..3 : S[k].v <= x.v}) >= 2
        /\ Cardinality({k \in 1..3 : S[k].v >= x.v}) >= 2

\* C4: R_t_estimation returns valid = false exactly when the middle one of
\* the three singular values of E is below 100, and valid = true otherwise.
C4_ValidIffMiddleAtLeast100 ==
    pc = "estimated" => (lcl.valid <=> ~RLt(Middle(lcl.S), I2R(100)))

\* R_t_estimation has returned valid = false for an E with the singular
\* values 150, 80, 0, its diagonal not in their order.
C4_Witness ==
    /\ pc = "estimated"
    /\ lcl.S = <<I2R(150), I2R(80), Zero>>
    /\ lcl.E[1][1] = I2R(80)
    /\ ~lcl.valid

\* The DualFrames object solve_stereo has just returned from, and its Frames.
Solved == Get(prev_frames)

SolvedLeft == heap[Solved.left_frame]

SolvedRight == heap[Solved.right_frame]

\* The Euclidean norm of the 3-D position (x, y, z) of a normalised point.
Norm3(w) == RSqrt(RAdd(RAdd(RMul(w[1], w[1]), RMul(w[2], w[2])), RMul(w[3], w[3])))

\* C5: solve_stereo keeps a triangulated point if and only if the norm of
\* its 3-D position after homogeneous normalisation is strictly below 80,
\* and the kept points are in their original order.
C5_KeepsExactlyNormBelow80 ==
    pc = "solved" =>
        \E cand \in {stereo_candidates(Solved, SolvedLeft, SolvedRight,
                                        lcl.matches).world_coordinates} :
            Get(Solved.world_coordinates)
                = SelectSeq(cand, LAMBDA w : RLt(Norm3(w), I2R(80)))

\* The normalised triangulation of one left and one right image point.
PointOf(self, l, r) ==
    Normalised(triangulatePoints(self.P_00, self.P_10,
                                 <<<<l[1]>>, <<l[2]>>>>, <<<<r[1]>>, <<r[2]>>>>))[1]

\* C6: after a call of solve_stereo, world_coordinates and the
\* valid_matches, valid_features and valid_descriptors of the left and of
\* the right Frame have the same number of entries, and the entries at one
\* index all stem from one accepted match of a left to a right keypoint.
C6_ContainersAligned ==
    pc = "solved" =>
        \E w \in {Get(Solved.world_coordinates)},
           lm \in {Get(SolvedLeft.valid_matches)},
           lf \in {Get(SolvedLeft.valid_features)},
           ld \in {Get(SolvedLeft.valid_descriptors)},
           rm \in {Get(SolvedRight.valid_matches)},
           rf \in {Get(SolvedRight.valid_features)},
           rd \in {Get(SolvedRight.valid_descriptors)} :
            /\ \A len \in {Len(lm[1]), Len(lm[2]), Len(lf), Len(ld),
                             Len(rm[1]), Len(rm[2]), Len(rf), Len(rd)} : len = Len(w)
            /\ \A j \in 1..Len(w) :
                  /\ <<lm[1][j], lm[2][j]>> = lf[j].pt
                  /\ <<rm[1][j], rm[2][j]>> = rf[j].pt
                  /\ lf[j] = Get(SolvedLeft.features)[lf[j].k]
                  /\ rf[j] = Get(SolvedRight.features)[rf[j].k]
                  /\ ld[j] = Get(SolvedLeft.descriptor)[lf[j].k]
                  /\ rd[j] = Get(SolvedRight.descriptor)[rf[j].k]
                  /\ \E q \in 1..Len(lcl.matches) :
                        /\ lcl.matches[q].m.queryIdx = lf[j].k
                        /\ lcl.matches[q].m.trainIdx = rf[j].k
                        /\ RLt(lcl.matches[q].m.distance,
                               RMul(ratio_t, lcl.matches[q].n.distance))
                  /\ w[j] = PointOf(Solved, lf[j].pt, rf[j].pt)

\* A call in which the ratio test rejected a match, the range mask dropped
\* an accepted one, and two matches of a keypoint to another keypoint's
\* counterpart were kept.
C6_Witness ==
    /\ pc = "solved"
    /\ Len(Accepted(lcl.matches)) < NFeat
    /\ Len(Get(Solved.world_coordinates)) < Len(Accepted(lcl.matches))
    /\ Len(Get(Solved.world_coordinates)) >= 2
    /\ \A j \in 1..Len(Get(Solved.world_coordinates)) :
          Get(SolvedLeft.valid_features)[j].k # Get(SolvedRight.valid_features)[j].k

\* C7: the K that R_t_estimation uses at every step is the calibration's K
\* scaled by 1 / down_sample once, with K[2][2] = 1, however many DualFrames
\* objects were constructed from the calibration.
C7_KScaledOnce ==
    pc = "estimated" => lcl.K = ScaleK(K_calib, down_sample)

\* C8: a planar displacement is discarded exactly when it exceeds 50 times
\* the dt of the step, and the scale is the median of those that remain.
C8_ThresholdFollowsDt ==
    pc = "scaled" =>
        /\ lcl.d = SelectSeq(lcl.d_all,
                             LAMBDA x : ~RLt(RMul(I2R(50), lcl.dt), x))
        /\ lcl.scale = median(lcl.d)

\* C9: the previous and the current 3-D points the displacements are taken
\* of are equally many, in the order of the previous pair's points, the
\* current point at an index the re-triangulation of the track of the
\* previous point at that index; a point is among them only if its status
\* is 1 in the left and in the right image and its re-triangulated norm is
\* below 80.
C9_TrackedSetsAligned ==
    pc = "scaled" =>
        \E w \in {lcl.world_coordinates}, p \in {lcl.prev_world_coordinates},
           before \in {Get(Prev.world_coordinates)} :
            /\ Len(w) = Len(p)
            /\ \E o \in [1..Len(w) -> 1..Len(before)] :
                  /\ \A j, k \in 1..Len(w) : j < k => o[j] < o[k]
                  /\ \A j \in 1..Len(w) :
                        /\ p[j] = before[o[j]]
                        /\ lcl.left_status[o[j]] = 1
                        /\ lcl.right_status[o[j]] = 1
                        /\ w[j] = PointOf(Prev, lcl.left_next_pts[o[j]],
                                          lcl.right_next_pts[o[j]])
                        /\ RLt(Norm3(w[j]), I2R(80))

\* Of three points the first was lost in the left image, the third tracked
\* out of range, and the second kept.
C9_Witness ==
    /\ pc = "scaled"
    /\ Len(Get(Prev.world_coordinates)) = 3
    /\ lcl.left_status = <<0, 1, 1>>
    /\ lcl.right_status = <<1, 1, 1>>
    /\ lcl.prev_world_coordinates = <<Get(Prev.world_coordinates)[2]>>
    /\ Len(lcl.world_coordinates) = 1

RECURSIVE RotationProduct(_, _)
\* R_1 * R_2 * ... * R_k of the first k calls.
RotationProduct(cs, k) ==
    IF k = 0 THEN Eye(3) ELSE MatMul(RotationProduct(cs, k - 1), cs[k].R)

RECURSIVE TranslationSum(_, _)
\* The sum over j <= k of s_j * (R_1 * ... * R_(j-1)) * t_j.
TranslationSum(cs, k) ==
    IF k = 0 THEN Zeros(3, 1)
    ELSE MatAdd(TranslationSum(cs, k - 1),
                MatScale(cs[k].s, MatMul(RotationProduct(cs, k - 1), cs[k].t)))

\* C10: the translation is accumulated with the global rotation as it was
\* before the step's rotation is composed: after n steps R_global is
\* R_1 * ... * R_n and t_global the sum of s_k * (R_1 * ... * R_(k-1)) * t_k.
C10_PoseComposition ==
    /\ trajectory.R = RotationProduct(calls, Len(calls))
    /\ trajectory.t = TranslationSum(calls, Len(calls))

\* Two steps whose rotations do not commute, the second translation turned
\* by the first rotation.
C10_Witness ==
    /\ Len(calls) = 2
    /\ calls[1].R = Rz90
    /\ calls[2].R = Rx90
    /\ calls[2].t = ex
    /\ MatMul(calls[1].R, calls[2].R) # MatMul(calls[2].R, calls[1].R)
    /\ trajectory.t # MatAdd(MatScale(calls[1].s, calls[1].t),
                             MatScale(calls[2].s, calls[2].t))

\* C11: the position history of a Trajectory is append-only and seeded with
\* the origin: after n calls of update it has n + 1 entries, the first of
\* them (0, 0, 0), and the velocity history has n entries; every call
\* appends exactly one position, the first three components of the Kalman
\* state after the step, and changes no position appended before.
C11_HistoryAppendOnly ==
    /\ [](/\ Len(trajectory.trajectory) = Len(calls) + 1
          /\ trajectory.trajectory[1] = <<Zero, Zero, Zero>>
          /\ Len(trajectory.velocity) = Len(calls))
    /\ [][Len(calls') = Len(calls) + 1 =>
              /\ SubSeq(trajectory'.trajectory, 1, Len(trajectory.trajectory))
                    = trajectory.trajectory
              /\ trajectory'.trajectory[Len(trajectory.trajectory) + 1]
                    = <<trajectory'.KF.x[1][1], trajectory'.KF.x[2][1],
                        trajectory'.KF.x[3][1]>>]_vars

\* Two calls, the second a valid step whose filtered position is neither
\* the one before it nor the measurement.
C11_Witness ==
    /\ Len(calls) = 2
    /\ calls[2].valid
    /\ Len(trajectory.trajectory) = 3
    /\ trajectory.trajectory[3] # trajectory.trajectory[2]
    /\ trajectory.trajectory[3] # Transpose(trajectory.t)[1]
    /\ Len(trajectory.velocity) = 2

\* The step from the position before call k to the position after it.
PositionStep(tr, k) ==
    Tab([j \in 1..3 |-> RSub(tr.trajectory[k + 1][j], tr.trajectory[k][j])], 3)

\* Every call so far was made with dt = 0.1 and advanced the filtered
\* position by the same vector, the one of the first call.
SteadyRun ==
    \A k \in 1..Len(calls) :
        /\ calls[k].dt = Dec(1, 10)
        /\ PositionStep(trajectory, k) = PositionStep(trajectory, 1)

\* C12: in a run whose filtered position advances by the same vector dp at
\* every step, with dt = 0.1 at every step, every velocity reported once the
\* window of 5 samples is full is 3.6 * dp / 0.1.
C12_SteadyVelocity ==
    SteadyRun =>
        \A n \in filter_window_size..Len(calls) :
            trajectory.velocity[n]
                = Tab([j \in 1..3 |->
                          RDiv(RMul(Dec(18, 5), PositionStep(trajectory, 1)[j]),
                               Dec(1, 10))], 3)

\* A steady run past the filling of the window, advancing by 0.5 along x:
\* 18 km/h.
C12_Witness ==
    /\ Len(calls) > filter_window_size
    /\ SteadyRun
    /\ PositionStep(trajectory, 1) = <<Dec(1, 2), Zero, Zero>>
    /\ trajectory.velocity[Len(calls)] = <<I2R(18), Zero, Zero>>

\* np.trace(P).
Trace(P) == RSum([j \in 1..Rows(P) |-> P[j][j]], Rows(P))

\* Every call made on the filter (log is its record) was predict(dt=1).
OnlyUnitPredicts(log) ==
    \A k \in 1..Len(log) : log[k] = [op |-> "predict", arg |-> One]

\* C13: from the initial filter (x = 0, P = I), after any number n >= 1 of
\* consecutive calls predict(dt=1) and no update, the position components
\* of x are 0 and trace(P) is strictly greater than after n - 1 calls.
C13_PredictKeepsOriginGrowsTrace ==
    [][(Len(kf_log') = Len(kf_log) + 1 /\ OnlyUnitPredicts(kf_log')) =>
          /\ \A j \in 1..3 : KF'.x[j][1] = Zero
          /\ Trace(KF.P).v < Trace(KF'.P).v]_vars

\* Three calls predict(dt=1) on the initial filter: position and velocity
\* have become correlated and the trace has grown past that of I.
C13_Witness ==
    /\ Len(kf_log) = 3
    /\ OnlyUnitPredicts(kf_log)
    /\ KF.P[1][4].v > 0
    /\ Trace(KF.P).v > Trace(Eye(6)).v
    /\ \A j \in 1..3 : KF.x[j][1] = Zero

HoldsPair(df, index) ==
    /\ heap[df.left_frame].frame # None
    /\ heap[df.right_frame].frame # None
    /\ Get(heap[df.left_frame].frame).index = index
    /\ Get(heap[df.left_frame].frame).cam = 0
    /\ Get(heap[df.right_frame].frame).index = index
    /\ Get(heap[df.right_frame].frame).cam = 1
    /\ \A k \in 1..NFeat :
          /\ Get(heap[df.left_frame].descriptor)[k].index = index
          /\ Get(heap[df.right_frame].descriptor)[k].index = index

\* C15: at iteration i, when solve_stereo, optical flow and R_t_estimation
\* run, prev_frames holds the Frames built from image index i - 1 and
\* current_frames those built from index i; prev_frames never holds a Frame
\* without an image; and update_frames on current_frames leaves alone the
\* Frames prev_frames holds, also those it obtained by copy.
C15_PairsFollowTheLoop ==
    /\ [](pc \in {"updated", "solved", "scaled", "estimated"} =>
              /\ HoldsPair(Prev, frame_i - 1)
              /\ HoldsPair(Current, frame_i))
    /\ [](prev_frames # None =>
              /\ heap[Prev.left_frame].frame # None
              /\ heap[Prev.right_frame].frame # None)
    /\ [][(pc = "loop" /\ pc' = "updated") =>
              /\ prev_frames' = prev_frames
              /\ heap'[Prev.left_frame] = heap[Prev.left_frame]
              /\ heap'[Prev.right_frame] = heap[Prev.right_frame]]_vars

\* The second iteration after update_frames: prev_frames holds, by copy, the
\* Frames current_frames held in the first.
C15_Witness ==
    /\ pc = "updated"
    /\ frame_i = 2
    /\ Len(calls) = 1
    /\ HoldsPair(Prev, 1)
    /\ HoldsPair(Current, 2)
    /\ Prev.left_frame # Current.left_frame
    /\ heap[Prev.left_frame].valid_matches = None

\* C16: when the scale-recovery stage reads prev_frames.world_coordinates
\* and the valid matches of prev_frames' Frames, they are what solve_stereo
\* computes, with the matches of this step, from exactly the Frames
\* prev_frames holds, those of the image index before the current one: the
\* points of an earlier step never meet the 2-D locations of a later one.
C16_PointsAreOfTheHeldFrames ==
    pc = "solved" =>
        \E r \in {solve_stereo(Prev, heap[Prev.left_frame], heap[Prev.right_frame],
                                lcl.matches)} :
            /\ ~r.raised
            /\ Prev.world_coordinates = Some(r.world_coordinates)
            /\ heap[Prev.left_frame] = r.left
            /\ heap[Prev.right_frame] = r.right
            /\ \A d \in {Get(r.left.valid_descriptors)[k] :
                              k \in 1..Len(Get(r.left.valid_descriptors))} :
                  d.index = frame_i - 1

\* The read of the second iteration: prev_frames holds the Frames it got by
\* copy, solved again, and the points left by the first iteration's call
\* were replaced.
C16_Witness ==
    /\ pc = "solved"
    /\ frame_i = 2
    /\ Len(calls) = 1
    /\ Len(Get(Prev.world_coordinates)) = 3
    /\ Get(heap[Prev.left_frame].valid_descriptors)[1].index = 1
    /\ Len(Get(heap[Prev.left_frame].valid_matches)[1]) = 3

\* The capture threads that have been started and have not ended.
Alive == {t \in DOMAIN capture_threads : capture_threads[t].pc # "ended"}

\* The /start request r leaves line 111 in this step.
Observes(r) ==
    /\ requests[r].route = "/start"
    /\ requests[r].pc = "locked"
    /\ requests'[r].pc # "locked"

\* C17: under every interleaving of /start requests at most one capture
\* thread exists while is_running is true; a /start that observes
\* is_running = true answers 409, starts no thread and changes no state; one
\* that observes false clears the stop event, sets is_running and starts
\* exactly one thread, all while it holds state_lock.
C17_AtMostOneCaptureThread ==
    /\ [](is_running => Cardinality(Alive) <= 1)
    /\ [][\A r \in DOMAIN requests :
             /\ (Observes(r) /\ is_running) =>
                    /\ requests'[r].code = 409
                    /\ UNCHANGED <<is_running, stop_evt, capture_threads>>
             /\ (Observes(r) /\ ~is_running) =>
                    /\ ~stop_evt'
                    /\ state_lock = Some(r)
                    /\ state_lock' = Some(r)
             /\ (requests[r].pc = "cleared" /\ requests'[r].pc # "cleared") =>
                    /\ is_running'
                    /\ state_lock = Some(r)
                    /\ state_lock' = Some(r)
             /\ (requests[r].pc = "marked" /\ requests'[r].pc # "marked") =>
                    /\ capture_threads' = Append(capture_threads, Thread)
                    /\ state_lock = Some(r)
                    /\ requests'[r].code = 200]_vars
    /\ [][Len(capture_threads') # Len(capture_threads) =>
             \E r \in DOMAIN requests : requests[r].pc = "marked" /\ requests'[r].pc = "done"]_vars

\* The capture thread t ends in this step.
Ends(t) ==
    /\ capture_threads[t].pc # "ended"
    /\ capture_threads'[t].pc = "ended"

\* Every capture thread started so far has ended, and at least one was started.
CaptureOver ==
    /\ capture_threads # <<>>
    /\ Alive = {}

\* C18: a capture thread ends only through its finally block, by whichever
\* path it got there: it leaves the body for line 94, sets is_running to
\* false there, and ends by clearing the stop event. So once the capture is
\* over, /status reports running = false and a /start is answered 200, not
\* 409.
C18_EveryEndResets ==
    /\ [][\A t \in DOMAIN capture_threads :
             /\ (capture_threads[t].pc \in {"start", "record"}
                     /\ capture_threads'[t].pc # capture_threads[t].pc) =>
                    capture_threads'[t].pc \in {"record", "finally"}
             /\ (capture_threads[t].pc = "finally"
                     /\ capture_threads'[t].pc # "finally") =>
                    /\ ~is_running'
                    /\ capture_threads'[t].pc = "clear"
             /\ Ends(t) =>
                    /\ capture_threads[t].pc = "clear"
                    /\ ~stop_evt']_vars
    /\ []((CaptureOver /\ state_lock = None) => ~is_running)
    /\ [][\A r \in DOMAIN requests :
             /\ (CaptureOver /\ requests[r].route = "/status"
                     /\ requests[r].pc # "done" /\ requests'[r].pc = "done") =>
                    requests'[r].running = Some(FALSE)
             /\ (CaptureOver /\ Observes(r)) =>
                    requests'[r].code # 409]_vars

\* The first capture has ended, a /status was answered running = false and a
\* second /start has started its thread.
C18_Witness ==
    /\ Len(capture_threads) = 2
    /\ capture_threads[1].pc = "ended"
    /\ \E r \in DOMAIN requests :
           /\ requests[r].route = "/status"
           /\ requests[r].running = Some(FALSE)
    /\ \A r \in DOMAIN requests :
           (requests[r].route = "/start") => requests[r].code = 200

\* C20: for every base directory and every relative path, safe_under_base
\* raises ValueError or returns the base directory or a path inside its
\* tree; it never returns a path outside, a sibling directory whose name
\* begins with the name of the base included.
C20_NeverOutsideBase ==
    (last # <<>> /\ last.called) =>
        \/ last.outcome[1].raised = Some("ValueError")
        \/ InTree(last.outcome[1].target[1], abspath(last.base))

\* The request handled last names the save directory itself.
NamesRoot ==
    abspath(path_join(SaveDir, lstrip(strip(last.path), {"/", "\\"}))) = abspath(SaveDir)

\* C19: no sequence of delete requests, soft or permanent, removes the save
\* directory or the folders videos and images at its root; a request that
\* names the root is answered 400.
C19_ProtectedFoldersStay ==
    /\ SaveDir \in fs
    /\ Entry(<<videos>>) \in fs
    /\ Entry(<<images>>) \in fs
    /\ (last # <<>> /\ NamesRoot) => last.code = 400

\* 3.6 * (p_k - p_(k-1)) / dt over the k-th step of tr.
Instantaneous(tr, k, dt) ==
    Tab([j \in 1..3 |-> RDiv(RMul(Dec(18, 5), PositionStep(tr, k)[j]), dt)], 3)

\* The mean, per axis, of the last w of rows.
MeanOfLast(rows, w) ==
    Tab([j \in 1..3 |->
            RDiv(RSum([k \in 1..w |-> rows[Len(rows) - w + k][j]], w), I2R(w))], 3)

Min(a, b) == IF a < b THEN a ELSE b

\* The instantaneous velocities of the steps so far, none of them smoothed.
RawVelocities == [k \in 1..Len(calls) |-> Instantaneous(trajectory, k, calls[k].dt)]

\* C26: the velocity stored at step n is the mean of the last min(n, 5)
\* entries of the history after the instantaneous velocity of the step has
\* been appended to it; the earlier entries of that window are the values
\* stored at earlier steps, and no entry but the newest changes.
C26_SmoothedOverStored ==
    [][Len(calls') = Len(calls) + 1 =>
          /\ Len(trajectory'.velocity) = Len(calls')
          /\ SubSeq(trajectory'.velocity, 1, Len(calls)) = trajectory.velocity
          /\ trajectory'.velocity[Len(calls')]
                = MeanOfLast(Append(trajectory.velocity,
                                    Instantaneous(trajectory', Len(calls'),
                                                  calls'[Len(calls')].dt)),
                             Min(Len(calls'), filter_window_size))]_vars

\* A run longer than the window whose newest stored velocity is neither the
\* instantaneous one nor the mean of the raw velocities of the window.
C26_Witness ==
    /\ Len(calls) > filter_window_size
    /\ trajectory.velocity[Len(calls)] # RawVelocities[Len(calls)]
    /\ trajectory.velocity[Len(calls)] # MeanOfLast(RawVelocities, filter_window_size)

\* The body of the request handled in this step.
Posted == requests'[Len(requests')].body

\* The value v stored under control k lies in the clamp range of k.
InClampRange(k, v) ==
    IF k = "ExposureTime" THEN 20 <= v /\ v <= 2000000
    ELSE /\ ~IsNaN(v)
         /\ ~RLt(v, FloatRange[k][1])
         /\ ~RLt(FloatRange[k][2], v)

\* The value sent for control k is one its parser rejects.
Unparsable(k, v) == IF k = "ExposureTime" THEN to_int(v) = None ELSE to_float(v) = None

\* C21: every control value a call stores lies in its clamp range; a value
\* that cannot be parsed leaves the stored control as it was; and a call
\* switches AeEnable to false exactly when it changes ExposureTime,
\* AnalogueGain or DigitalGain and does not contain AeEnable.
C21_ClampedAndAeFollowsChange ==
    [][(Len(requests') = Len(requests) + 1 /\ "reset" \notin DOMAIN Posted) =>
          /\ \A k \in (DOMAIN Posted) \ {"AeEnable"} :
                 /\ preview_ctrls'[k] # preview_ctrls[k] =>
                        InClampRange(k, preview_ctrls'[k][1])
                 /\ Unparsable(k, Posted[k]) => preview_ctrls'[k] = preview_ctrls[k]
                 /\ ~Unparsable(k, Posted[k]) =>
                        (preview_ctrls'[k] # None /\ InClampRange(k, preview_ctrls'[k][1]))
          /\ "AeEnable" \notin DOMAIN Posted =>
                 ((preview_ctrls["AeEnable"] = Some(TRUE)
                       /\ preview_ctrls'["AeEnable"] = Some(FALSE))
                  <=> (/\ preview_ctrls["AeEnable"] = Some(TRUE)
                       /\ \E k \in {"ExposureTime", "AnalogueGain", "DigitalGain"} :
                              preview_ctrls'[k] # preview_ctrls[k]))]_vars

\* The calls made by the function `by`, in order.
ReadsBy(by) == SelectSeq(cpu_log, LAMBDA c : c.by = by)

\* The first call returned None, and every later call at which the total
\* had advanced since the call before it returned the busy share of the
\* interval between the two, a percentage between 0 and 100.
NoneOnFirstCallOnly(reads) ==
    \A n \in DOMAIN reads :
        /\ n = 1 => reads[n].result = None
        /\ (n > 1 /\ reads[n].total > reads[n - 1].total) =>
               /\ reads[n].result
                     = Some(Dec(((reads[n].total - reads[n - 1].total)
                                     - (reads[n].idle - reads[n - 1].idle)) * 100,
                                reads[n].total - reads[n - 1].total))
               /\ ~RLt(reads[n].result[1], Zero)
               /\ ~RLt(I2R(100), reads[n].result[1])

\* C22: in production mode with /proc/stat readable, the function returns
\* None on its first call only; on every later call at which the total CPU
\* time has advanced since the call before, it returns a percentage in
\* [0, 100] computed from the deltas to that call's totals.
C22_UtilisationFromDeltas ==
    /\ NoneOnFirstCallOnly(ReadsBy("hardware"))
    /\ NoneOnFirstCallOnly(ReadsBy("app"))

\* A /stop was answered that found the capture thread t in its body.
StopSentTo(t) ==
    \E r \in DOMAIN requests :
        /\ requests[r].route = "/stop"
        /\ requests[r].pc = "done"
        /\ t \in requests[r].saw[1].body

\* The capture thread t has left its body and set is_running to false.
Stopped(t) ==
    /\ t \in DOMAIN capture_threads
    /\ capture_threads[t].pc \in {"clear", "ended"}

\* C23: a /stop issued after a successful /start, while the capture thread
\* of that /start is running, is never lost: under every interleaving the
\* thread eventually observes the event, leaves its body and sets
\* is_running to false.
C23_StopIsNeverLost ==
    \A t \in 1..MaxRequests : StopSentTo(t) ~> Stopped(t)

\* The /stop request r was answered while no capture was running: no
\* thread in its body, no /start past its line 113.
StopBeforeStart(r) ==
    /\ requests[r].route = "/stop"
    /\ requests[r].pc = "done"
    /\ requests[r].saw[1].body = {}
    /\ ~requests[r].saw[1].starting

\* The /stop request r was answered after the /start of capture thread t
\* had cleared the event.
StopAfterStartOf(r, t) ==
    /\ requests[r].route = "/stop"
    /\ requests[r].pc = "done"
    /\ \/ t \in requests[r].saw[1].body
       \/ requests[r].saw[1].starting /\ requests[r].saw[1].threads = t - 1

\* C24: a /stop that completes while no capture is running has no effect on
\* a capture started afterwards, because /start clears the event before it
\* starts the thread: the simulated recording of lines 44-47 ends only on a
\* /stop answered after that /start.
C24_EarlierStopHasNoEffect ==
    /\ [][\A t \in DOMAIN capture_threads :
             (/\ config.DEVELOPMENT_MODE
              /\ capture_threads[t].pc = "record"
              /\ capture_threads'[t].pc # "record") =>
                 \E r \in DOMAIN requests : StopAfterStartOf(r, t)]_vars
    /\ [][\A r \in DOMAIN requests :
             (Observes(r) /\ ~is_running) => ~stop_evt']_vars
    /\ []((\A r \in DOMAIN requests :
               requests[r].route = "/stop" => StopBeforeStart(r)) =>
           \A t \in DOMAIN capture_threads :
               capture_threads[t].pc = "record" => ~stop_evt)

\* A /stop was answered while nothing was running, and the capture started
\* afterwards is recording with the event clear.
C24_Witness ==
    /\ config.DEVELOPMENT_MODE
    /\ \E r \in DOMAIN requests : StopBeforeStart(r)
    /\ \A r \in DOMAIN requests : requests[r].route = "/stop" => StopBeforeStart(r)
    /\ \E t \in DOMAIN capture_threads : capture_threads[t].pc = "record"
    /\ ~stop_evt


\* In production mode, is capture thread t inside video_capture?
InVideoCapture(t) ==
    /\ ~config.DEVELOPMENT_MODE
    /\ t \in DOMAIN capture_threads
    /\ capture_threads[t].pc = "record"

\* The /preview.mjpg request p holds _picam_lock and takes this step.
StepUnderLock(p) ==
    /\ picam_lock = Some(p)
    /\ previews'[p] # previews[p]

\* C25: in production mode no preview instance is open while a capture
\* thread is inside video_capture, and the preview-camera handle is replaced
\* only by a step of the request that holds _picam_lock.
C25_PreviewClosedWhileRecording ==
    /\ [](\A t \in DOMAIN capture_threads : InVideoCapture(t) => cameras = {})
    /\ [][picam2' # picam2 => \E p \in DOMAIN previews : StepUnderLock(p)]_vars

====
